---- MODULE Spec2Model ----
(***************************************************************************)
(* A model of the request preparation and the client calls of the minFraud *)
(* Python client: minfraud/request.py (null pruning, email hashing, credit *)
(* card clean-up), minfraud/validation.py (the request schemas) and        *)
(* minfraud/webservice.py (score, insights, factors, report).              *)
(*                                                                         *)
(* Python objects live in a heap: a dict, list, set or tuple is an object  *)
(* with an address, and a value is either a scalar or a reference to such  *)
(* an object.  Two names can therefore denote the same mutable object, and *)
(* an in-place update through one is seen through the other.               *)
(*                                                                         *)
(* A Python str is a sequence of one-character strings.  Only ASCII text   *)
(* is modelled: on ASCII text unicodedata.normalize("NFC", s) returns s    *)
(* and the idna codec returns its input or raises UnicodeError.            *)
(***************************************************************************)
EXTENDS Integers, Sequences, FiniteSets, TLC

VARIABLES
    heap,       \* the object store: heap[a] is the container at address a
    input,      \* the request as the caller built it (a tree, never changed)
    request,    \* the caller's request: a reference into heap
    call,       \* the call: [client, op, validate, hash_email]
    pc,         \* "start", "prepared", "sent", "done"
    prepared,   \* the value prepare_transaction / prepare_report returned
    validated,  \* the structures handed to the schema validator, in order
    posts,      \* the JSON bodies POSTed, in order
    response,   \* the HTTP response received, or NoResponse
    outcome,    \* "none", "returned", or the class of the exception raised
    warned,     \* number of DeprecationWarnings emitted
    message,    \* the violations that the message of the InvalidRequestError
                \* raised by prepare_* describes
    aio         \* one AsyncClient and the coroutines that use it

vars == <<heap, input, request, call, pc, prepared, validated, posts,
          response, outcome, warned, message, aio>>

---------------------------------------------------------------------------
(* Values.  Every scalar is a record [t, v] whose v is a sequence of       *)
(* one-character strings: the text of a str, the digits of an int.         *)

None == [t |-> "none", v |-> <<>>]

True == [t |-> "bool", v |-> <<"1">>]

False == [t |-> "bool", v |-> <<"0">>]

Str(s) == [t |-> "str", v |-> s]

Num(digits) == [t |-> "int", v |-> digits]

Ref(a) == [t |-> "ref", v |-> <<a>>]

IsRef(x) == x.t = "ref"

Addr(x) == x.v[1]

\* A container object: m holds a dict's entries, s the elements of a list,
\* set or tuple in iteration order.
DictObj(m) == [k |-> "dict", m |-> m, s |-> <<>>]

SeqObj(kind, s) == [k |-> kind, m |-> <<>>, s |-> s]

SeqKinds == {"list", "set", "tuple"}

\* isinstance(x, dict), isinstance(x, (list, set, tuple)) for a value x.
IsDict(h, x) == IsRef(x) /\ h[Addr(x)].k = "dict"

IsSeq(h, x) == IsRef(x) /\ h[Addr(x)].k \in SeqKinds

\* Python truthiness of a value: None, False, 0, "" and empty containers
\* are falsy.
Truthy(h, x) ==
    CASE x.t = "none" -> FALSE
      [] x.t = "bool" -> x = True
      [] x.t = "int"  -> x.v # <<"0">>
      [] x.t = "str"  -> x.v # <<>>
      [] x.t = "ref"  -> IF h[Addr(x)].k = "dict"
                         THEN DOMAIN h[Addr(x)].m # {}
                         ELSE h[Addr(x)].s # <<>>
      [] OTHER        -> TRUE

\* The keys of a dict in iteration order (any fixed order: nothing the
\* program computes depends on it).
RECURSIVE KeySeq(_)
KeySeq(ks) ==
    IF ks = {} THEN <<>>
    ELSE LET k == CHOOSE x \in ks : TRUE IN <<k>> \o KeySeq(ks \ {k})

\* Allocation of a new object: the heap grows by one cell.
Alloc(h, obj) == [h |-> Append(h, obj), v |-> Ref(Len(h) + 1)]

---------------------------------------------------------------------------
(* Trees: the deep value of a structure, used to build the caller's        *)
(* request and to compare structures by value (Python ==).                 *)

\* The tree a value denotes in heap h.
RECURSIVE View(_, _)
View(h, x) ==
    IF ~IsRef(x) THEN x
    ELSE LET o == h[Addr(x)] IN
         [k |-> o.k,
          m |-> [key \in DOMAIN o.m |-> View(h, o.m[key])],
          s |-> [i \in DOMAIN o.s |-> View(h, o.s[i])]]

IsNode(t) == "k" \in DOMAIN t

\* Store a tree in the heap, children first; returns [h, v].
RECURSIVE Store(_, _), StoreEntries(_, _, _, _), StoreElems(_, _, _, _)
Store(h, t) ==
    IF ~IsNode(t) THEN [h |-> h, v |-> t]
    ELSE IF t.k = "dict"
    THEN LET r == StoreEntries(h, t.m, KeySeq(DOMAIN t.m), <<>>)
         IN Alloc(r.h, DictObj(r.v))
    ELSE LET r == StoreElems(h, t.s, 1, <<>>)
         IN Alloc(r.h, SeqObj(t.k, r.v))

StoreEntries(h, m, keys, acc) ==
    IF keys = <<>> THEN [h |-> h, v |-> acc]
    ELSE LET r == Store(h, m[Head(keys)])
         IN StoreEntries(r.h, m, Tail(keys), acc @@ (Head(keys) :> r.v))

StoreElems(h, s, i, acc) ==
    IF i > Len(s) THEN [h |-> h, v |-> acc]
    ELSE LET r == Store(h, s[i])
         IN StoreElems(r.h, s, i + 1, Append(acc, r.v))

---------------------------------------------------------------------------
(* request.py: _copy_and_clean                                             *)

RECURSIVE copy_and_clean(_, _), clean_items(_, _, _, _), clean_elems(_, _, _, _)
RECURSIVE drop_empty_items(_, _, _, _), keep_none_elems(_, _, _, _)
RECURSIVE clean_truthy_items(_, _, _, _)

\* A shallow copy: the container is new, its non-None members are shared.
copy_shallow(h, data) ==
    IF IsDict(h, data)
    THEN LET m == h[Addr(data)].m
             keep == {k \in DOMAIN m : m[k] # None}
         IN Alloc(h, DictObj([k \in keep |-> m[k]]))
    ELSE IF IsSeq(h, data)
    THEN Alloc(h, SeqObj("list", SelectSeq(h[Addr(data)].s, LAMBDA x : x # None)))
    ELSE [h |-> h, v |-> data]

\* The dict comprehension with a filter that also drops the entries whose
\* cleaned value is an empty container.
drop_empty_items(h, m, keys, acc) ==
    IF keys = <<>> THEN [h |-> h, v |-> acc]
    ELSE IF m[Head(keys)] = None
    THEN drop_empty_items(h, m, Tail(keys), acc)
    ELSE LET r == copy_and_clean(h, m[Head(keys)])
         IN IF IsRef(r.v) /\ ~Truthy(r.h, r.v)
            THEN drop_empty_items(r.h, m, Tail(keys), acc)
            ELSE drop_empty_items(r.h, m, Tail(keys), acc @@ (Head(keys) :> r.v))

\* The dict comprehension with the filter "if v": the entries whose given
\* value is falsy are dropped.
clean_truthy_items(h, m, keys, acc) ==
    IF keys = <<>> THEN [h |-> h, v |-> acc]
    ELSE IF ~Truthy(h, m[Head(keys)])
    THEN clean_truthy_items(h, m, Tail(keys), acc)
    ELSE LET r == copy_and_clean(h, m[Head(keys)])
         IN clean_truthy_items(r.h, m, Tail(keys), acc @@ (Head(keys) :> r.v))

\* The list comprehension without its filter: None elements are kept.
keep_none_elems(h, s, i, acc) ==
    IF i > Len(s) THEN [h |-> h, v |-> acc]
    ELSE LET r == copy_and_clean(h, s[i])
         IN keep_none_elems(r.h, s, i + 1, Append(acc, r.v))

\* _copy_and_clean(data): a dict gives a new dict of the cleaned values of
\* the entries whose value is not None; a list, set or tuple gives a new
\* list of the cleaned non-None elements; anything else is returned as is.
copy_and_clean(h, data) ==
    IF IsDict(h, data)
    THEN LET m == h[Addr(data)].m
             r == clean_items(h, m, KeySeq(DOMAIN m), <<>>)
         IN Alloc(r.h, DictObj(r.v))
    ELSE IF IsSeq(h, data)
    THEN LET r == clean_elems(h, h[Addr(data)].s, 1, <<>>)
         IN Alloc(r.h, SeqObj("list", r.v))
    ELSE [h |-> h, v |-> data]

\* {k: _copy_and_clean(v) for (k, v) in data.items() if v is not None}
clean_items(h, m, keys, acc) ==
    IF keys = <<>> THEN [h |-> h, v |-> acc]
    ELSE IF m[Head(keys)] = None
    THEN clean_items(h, m, Tail(keys), acc)
    ELSE LET r == copy_and_clean(h, m[Head(keys)])
         IN clean_items(r.h, m, Tail(keys), acc @@ (Head(keys) :> r.v))

\* [_copy_and_clean(x) for x in data if x is not None]
clean_elems(h, s, i, acc) ==
    IF i > Len(s) THEN [h |-> h, v |-> acc]
    ELSE IF s[i] = None
    THEN clean_elems(h, s, i + 1, acc)
    ELSE LET r == copy_and_clean(h, s[i])
         IN clean_elems(r.h, s, i + 1, Append(acc, r.v))

---------------------------------------------------------------------------
(* Python str operations, on sequences of one-character strings.  Indices  *)
(* are Python's: the first character has index 0, and find / rfind return  *)
(* -1 when there is no occurrence.                                         *)

UpperCase == <<"A","B","C","D","E","F","G","H","I","J","K","L","M",
               "N","O","P","Q","R","S","T","U","V","W","X","Y","Z">>

LowerCase == <<"a","b","c","d","e","f","g","h","i","j","k","l","m",
               "n","o","p","q","r","s","t","u","v","w","x","y","z">>

Digits == {"0","1","2","3","4","5","6","7","8","9"}

Whitespace == {" ", "\t", "\n", "\r", "\f"}

LowerChar(c) ==
    IF \E i \in DOMAIN UpperCase : UpperCase[i] = c
    THEN LowerCase[CHOOSE i \in DOMAIN UpperCase : UpperCase[i] = c]
    ELSE c

\* s.lower()
Lower(s) == [i \in DOMAIN s |-> LowerChar(s[i])]

\* s[a:b] for 0 <= a and 0 <= b
Slice(s, a, b) == SubSeq(s, a + 1, IF b > Len(s) THEN Len(s) ELSE b)

\* s[a:]
SliceFrom(s, a) == SubSeq(s, a + 1, Len(s))

\* s.find(c), s.rfind(c) for a one-character c
Find(s, c) ==
    IF \E i \in DOMAIN s : s[i] = c
    THEN (CHOOSE i \in DOMAIN s : s[i] = c /\ \A j \in 1..(i - 1) : s[j] # c) - 1
    ELSE -1

RFind(s, c) ==
    IF \E i \in DOMAIN s : s[i] = c
    THEN (CHOOSE i \in DOMAIN s : s[i] = c /\ \A j \in (i + 1)..Len(s) : s[j] # c) - 1
    ELSE -1

\* s.strip(): leading and trailing whitespace removed
Strip(s) ==
    IF \A i \in DOMAIN s : s[i] \in Whitespace THEN <<>>
    ELSE LET a == CHOOSE i \in DOMAIN s :
                      s[i] \notin Whitespace /\ \A j \in 1..(i - 1) : s[j] \in Whitespace
             b == CHOOSE i \in DOMAIN s :
                      s[i] \notin Whitespace /\ \A j \in (i + 1)..Len(s) : s[j] \in Whitespace
         IN SubSeq(s, a, b)

\* s.rstrip("."): every trailing "." removed
RStripDots(s) ==
    IF \A i \in DOMAIN s : s[i] = "." THEN <<>>
    ELSE LET b == CHOOSE i \in DOMAIN s :
                      s[i] # "." /\ \A j \in (i + 1)..Len(s) : s[j] = "."
         IN SubSeq(s, 1, b)

\* s.replace(c, "") for a one-character c
Remove(s, c) == SelectSeq(s, LAMBDA x : x # c)

\* s.split("."): the labels of s, at least one
RECURSIVE Split(_)
Split(s) ==
    LET i == Find(s, ".") IN
    IF i = -1 THEN <<s>> ELSE <<Slice(s, 0, i)>> \o Split(SliceFrom(s, i + 1))

\* ".".join(parts)
RECURSIVE Join(_)
Join(parts) ==
    IF parts = <<>> THEN <<>>
    ELSE IF Len(parts) = 1 THEN parts[1]
    ELSE parts[1] \o <<".">> \o Join(Tail(parts))

\* The ends of s for the regular expression anchor "$" (no MULTILINE): the
\* end of the string, and the place before a final newline.
DollarEnds(s) ==
    {Len(s)} \cup (IF s # <<>> /\ s[Len(s)] = "\n" THEN {Len(s) - 1} ELSE {})

DotCom == <<".","c","o","m">>

\* Whether s consists of n >= 0 repetitions of ".com".
RECURSIVE IsDotComs(_)
IsDotComs(s) ==
    s = <<>> \/ (Len(s) >= 4 /\ SubSeq(s, 1, 4) = DotCom /\ IsDotComs(SliceFrom(s, 4)))

---------------------------------------------------------------------------
(* request.py: the domain tables                                           *)

\* _TYPO_DOMAINS (request.py lines 21-35): a map from str to str.
TYPO_DOMAINS ==
    (<<"g","m","a","i",".","c","o","m">> :> <<"g","m","a","i","l",".","c","o","m">>)
    @@ (<<"g","a","m","i","l",".","c","o","m">> :> <<"g","m","a","i","l",".","c","o","m">>)
    @@ (<<"g","m","a","l","i",".","c","o","m">> :> <<"g","m","a","i","l",".","c","o","m">>)
    @@ (<<"g","m","i","a","l",".","c","o","m">> :> <<"g","m","a","i","l",".","c","o","m">>)
    @@ (<<"g","m","i","l",".","c","o","m">> :> <<"g","m","a","i","l",".","c","o","m">>)
    @@ (<<"g","m","a","i","l","l",".","c","o","m">> :> <<"g","m","a","i","l",".","c","o","m">>)
    @@ (<<"g","m","a","i","l","m",".","c","o","m">> :> <<"g","m","a","i","l",".","c","o","m">>)
    @@ (<<"g","m","a","i","l","o",".","c","o","m">> :> <<"g","m","a","i","l",".","c","o","m">>)
    @@ (<<"g","m","a","i","l","y","h","o","o",".","c","o","m">> :> <<"g","m","a","i","l",".","c","o","m">>)
    @@ (<<"y","a","h","o","o","g","m","a","i","l",".","c","o","m">> :> <<"g","m","a","i","l",".","c","o","m">>)
    @@ (<<"p","u","t","l","o","o","k",".","c","o","m">> :> <<"o","u","t","l","o","o","k",".","c","o","m">>)

\* _TYPO_TLDS (request.py lines 37-79): a map from str to str.
TYPO_TLDS ==
    (<<"c","o","m","m">> :> <<"c","o","m">>)
    @@ (<<"c","o","m","m","m">> :> <<"c","o","m">>)
    @@ (<<"c","o","m","m","m","m">> :> <<"c","o","m">>)
    @@ (<<"c","o","m","n">> :> <<"c","o","m">>)
    @@ (<<"c","b","m">> :> <<"c","o","m">>)
    @@ (<<"c","c","m">> :> <<"c","o","m">>)
    @@ (<<"c","d","m">> :> <<"c","o","m">>)
    @@ (<<"c","e","m">> :> <<"c","o","m">>)
    @@ (<<"c","f","m">> :> <<"c","o","m">>)
    @@ (<<"c","g","m">> :> <<"c","o","m">>)
    @@ (<<"c","h","m">> :> <<"c","o","m">>)
    @@ (<<"c","i","m">> :> <<"c","o","m">>)
    @@ (<<"c","j","m">> :> <<"c","o","m">>)
    @@ (<<"c","k","m">> :> <<"c","o","m">>)
    @@ (<<"c","l","m">> :> <<"c","o","m">>)
    @@ (<<"c","m","m">> :> <<"c","o","m">>)
    @@ (<<"c","n","m">> :> <<"c","o","m">>)
    @@ (<<"c","p","m">> :> <<"c","o","m">>)
    @@ (<<"c","q","m">> :> <<"c","o","m">>)
    @@ (<<"c","r","m">> :> <<"c","o","m">>)
    @@ (<<"c","s","m">> :> <<"c","o","m">>)
    @@ (<<"c","t","m">> :> <<"c","o","m">>)
    @@ (<<"c","u","m">> :> <<"c","o","m">>)
    @@ (<<"c","v","m">> :> <<"c","o","m">>)
    @@ (<<"c","w","m">> :> <<"c","o","m">>)
    @@ (<<"c","x","m">> :> <<"c","o","m">>)
    @@ (<<"c","y","m">> :> <<"c","o","m">>)
    @@ (<<"c","z","m">> :> <<"c","o","m">>)
    @@ (<<"c","o","l">> :> <<"c","o","m">>)
    @@ (<<"c","o","n">> :> <<"c","o","m">>)
    @@ (<<"d","o","m">> :> <<"c","o","m">>)
    @@ (<<"d","o","n">> :> <<"c","o","m">>)
    @@ (<<"s","o","m">> :> <<"c","o","m">>)
    @@ (<<"s","o","n">> :> <<"c","o","m">>)
    @@ (<<"v","o","m">> :> <<"c","o","m">>)
    @@ (<<"v","o","n">> :> <<"c","o","m">>)
    @@ (<<"x","o","m">> :> <<"c","o","m">>)
    @@ (<<"x","o","n">> :> <<"c","o","m">>)
    @@ (<<"c","l","a","m">> :> <<"c","o","m">>)
    @@ (<<"c","o","l","m">> :> <<"c","o","m">>)
    @@ (<<"c","o","m","c","o","m">> :> <<"c","o","m">>)

\* _EQUIVALENT_DOMAINS (request.py lines 81-90): a map from str to str.
EQUIVALENT_DOMAINS ==
    (<<"g","o","o","g","l","e","m","a","i","l",".","c","o","m">> :> <<"g","m","a","i","l",".","c","o","m">>)
    @@ (<<"p","m",".","m","e">> :> <<"p","r","o","t","o","n","m","a","i","l",".","c","o","m">>)
    @@ (<<"p","r","o","t","o","n",".","m","e">> :> <<"p","r","o","t","o","n","m","a","i","l",".","c","o","m">>)
    @@ (<<"y","a","n","d","e","x",".","b","y">> :> <<"y","a","n","d","e","x",".","r","u">>)
    @@ (<<"y","a","n","d","e","x",".","c","o","m">> :> <<"y","a","n","d","e","x",".","r","u">>)
    @@ (<<"y","a","n","d","e","x",".","k","z">> :> <<"y","a","n","d","e","x",".","r","u">>)
    @@ (<<"y","a","n","d","e","x",".","u","a">> :> <<"y","a","n","d","e","x",".","r","u">>)
    @@ (<<"y","a",".","r","u">> :> <<"y","a","n","d","e","x",".","r","u">>)

\* _FASTMAIL_DOMAINS (request.py lines 92-210): a set of str.
FASTMAIL_DOMAINS == {
    <<"1","2","3","m","a","i","l",".","o","r","g">>,
    <<"1","5","0","m","a","i","l",".","c","o","m">>,
    <<"1","5","0","m","l",".","c","o","m">>,
    <<"1","6","m","a","i","l",".","c","o","m">>,
    <<"2","-","m","a","i","l",".","c","o","m">>,
    <<"4","e","m","a","i","l",".","n","e","t">>,
    <<"5","0","m","a","i","l",".","c","o","m">>,
    <<"a","i","r","p","o","s","t",".","n","e","t">>,
    <<"a","l","l","m","a","i","l",".","n","e","t">>,
    <<"b","e","s","t","m","a","i","l",".","u","s">>,
    <<"c","l","u","e","m","a","i","l",".","c","o","m">>,
    <<"e","l","i","t","e","m","a","i","l",".","o","r","g">>,
    <<"e","m","a","i","l","c","o","r","n","e","r",".","n","e","t">>,
    <<"e","m","a","i","l","e","n","g","i","n","e",".","n","e","t">>,
    <<"e","m","a","i","l","e","n","g","i","n","e",".","o","r","g">>,
    <<"e","m","a","i","l","g","r","o","u","p","s",".","n","e","t">>,
    <<"e","m","a","i","l","p","l","u","s",".","o","r","g">>,
    <<"e","m","a","i","l","u","s","e","r",".","n","e","t">>,
    <<"e","m","l",".","c","c">>,
    <<"f","-","m",".","f","m">>,
    <<"f","a","s","t","-","e","m","a","i","l",".","c","o","m">>,
    <<"f","a","s","t","-","m","a","i","l",".","o","r","g">>,
    <<"f","a","s","t","e","m",".","c","o","m">>,
    <<"f","a","s","t","e","m","a","i","l",".","u","s">>,
    <<"f","a","s","t","e","m","a","i","l","e","r",".","c","o","m">>,
    <<"f","a","s","t","e","s","t",".","c","c">>,
    <<"f","a","s","t","i","m","a","p",".","c","o","m">>,
    <<"f","a","s","t","m","a","i","l",".","c","n">>,
    <<"f","a","s","t","m","a","i","l",".","c","o",".","u","k">>,
    <<"f","a","s","t","m","a","i","l",".","c","o","m">>,
    <<"f","a","s","t","m","a","i","l",".","c","o","m",".","a","u">>,
    <<"f","a","s","t","m","a","i","l",".","d","e">>,
    <<"f","a","s","t","m","a","i","l",".","e","s">>,
    <<"f","a","s","t","m","a","i","l",".","f","m">>,
    <<"f","a","s","t","m","a","i","l",".","f","r">>,
    <<"f","a","s","t","m","a","i","l",".","i","m">>,
    <<"f","a","s","t","m","a","i","l",".","i","n">>,
    <<"f","a","s","t","m","a","i","l",".","j","p">>,
    <<"f","a","s","t","m","a","i","l",".","m","x">>,
    <<"f","a","s","t","m","a","i","l",".","n","e","t">>,
    <<"f","a","s","t","m","a","i","l",".","n","l">>,
    <<"f","a","s","t","m","a","i","l",".","o","r","g">>,
    <<"f","a","s","t","m","a","i","l",".","s","e">>,
    <<"f","a","s","t","m","a","i","l",".","t","o">>,
    <<"f","a","s","t","m","a","i","l",".","t","w">>,
    <<"f","a","s","t","m","a","i","l",".","u","k">>,
    <<"f","a","s","t","m","a","i","l",".","u","s">>,
    <<"f","a","s","t","m","a","i","l","b","o","x",".","n","e","t">>,
    <<"f","a","s","t","m","e","s","s","a","g","i","n","g",".","c","o","m">>,
    <<"f","e","a",".","s","t">>,
    <<"f","m","a","i","l",".","c","o",".","u","k">>,
    <<"f","m","a","i","l","b","o","x",".","c","o","m">>,
    <<"f","m","g","i","r","l",".","c","o","m">>,
    <<"f","m","g","u","y",".","c","o","m">>,
    <<"f","t","m","l",".","n","e","t">>,
    <<"h","-","m","a","i","l",".","u","s">>,
    <<"h","a","i","l","m","a","i","l",".","n","e","t">>,
    <<"i","m","a","p","-","m","a","i","l",".","c","o","m">>,
    <<"i","m","a","p",".","c","c">>,
    <<"i","m","a","p","m","a","i","l",".","o","r","g">>,
    <<"i","n","o","u","t","b","o","x",".","c","o","m">>,
    <<"i","n","t","e","r","n","e","t","-","e","-","m","a","i","l",".","c","o","m">>,
    <<"i","n","t","e","r","n","e","t","-","m","a","i","l",".","o","r","g">>,
    <<"i","n","t","e","r","n","e","t","e","m","a","i","l","s",".","n","e","t">>,
    <<"i","n","t","e","r","n","e","t","m","a","i","l","i","n","g",".","n","e","t">>,
    <<"j","e","t","e","m","a","i","l",".","n","e","t">>,
    <<"j","u","s","t","e","m","a","i","l",".","n","e","t">>,
    <<"l","e","t","t","e","r","b","o","x","e","s",".","o","r","g">>,
    <<"m","a","i","l","-","c","e","n","t","r","a","l",".","c","o","m">>,
    <<"m","a","i","l","-","p","a","g","e",".","c","o","m">>,
    <<"m","a","i","l","a","n","d","f","t","p",".","c","o","m">>,
    <<"m","a","i","l","a","s",".","c","o","m">>,
    <<"m","a","i","l","b","o","l","t",".","c","o","m">>,
    <<"m","a","i","l","c",".","n","e","t">>,
    <<"m","a","i","l","c","a","n",".","c","o","m">>,
    <<"m","a","i","l","f","o","r","c","e",".","n","e","t">>,
    <<"m","a","i","l","f","t","p",".","c","o","m">>,
    <<"m","a","i","l","h","a","v","e","n",".","c","o","m">>,
    <<"m","a","i","l","i","n","g","a","d","d","r","e","s","s",".","o","r","g">>,
    <<"m","a","i","l","i","t","e",".","c","o","m">>,
    <<"m","a","i","l","m","i","g","h","t",".","c","o","m">>,
    <<"m","a","i","l","n","e","w",".","c","o","m">>,
    <<"m","a","i","l","s","e","n","t",".","n","e","t">>,
    <<"m","a","i","l","s","e","r","v","i","c","e",".","m","s">>,
    <<"m","a","i","l","u","p",".","n","e","t">>,
    <<"m","a","i","l","w","o","r","k","s",".","o","r","g">>,
    <<"m","l","1",".","n","e","t">>,
    <<"m","m",".","s","t">>,
    <<"m","y","f","a","s","t","m","a","i","l",".","c","o","m">>,
    <<"m","y","m","a","c","m","a","i","l",".","c","o","m">>,
    <<"n","o","s","p","a","m","m","a","i","l",".","n","e","t">>,
    <<"o","w","n","m","a","i","l",".","n","e","t">>,
    <<"p","e","t","m","l",".","c","o","m">>,
    <<"p","o","s","t","i","n","b","o","x",".","c","o","m">>,
    <<"p","o","s","t","p","r","o",".","n","e","t">>,
    <<"p","r","o","i","n","b","o","x",".","c","o","m">>,
    <<"p","r","o","m","e","s","s","a","g","e",".","c","o","m">>,
    <<"r","e","a","l","e","m","a","i","l",".","n","e","t">>,
    <<"r","e","a","l","l","y","f","a","s","t",".","b","i","z">>,
    <<"r","e","a","l","l","y","f","a","s","t",".","i","n","f","o">>,
    <<"r","u","s","h","p","o","s","t",".","c","o","m">>,
    <<"s","e","n","t",".","a","s">>,
    <<"s","e","n","t",".","a","t">>,
    <<"s","e","n","t",".","c","o","m">>,
    <<"s","p","e","e","d","p","o","s","t",".","n","e","t">>,
    <<"s","p","e","e","d","y","m","a","i","l",".","o","r","g">>,
    <<"s","s","l","-","m","a","i","l",".","c","o","m">>,
    <<"s","w","i","f","t","-","m","a","i","l",".","c","o","m">>,
    <<"t","h","e","-","f","a","s","t","e","s","t",".","n","e","t">>,
    <<"t","h","e","-","q","u","i","c","k","e","s","t",".","c","o","m">>,
    <<"t","h","e","i","n","t","e","r","n","e","t","e","m","a","i","l",".","c","o","m">>,
    <<"v","e","r","y","f","a","s","t",".","b","i","z">>,
    <<"v","e","r","y","s","p","e","e","d","y",".","n","e","t">>,
    <<"w","a","r","p","m","a","i","l",".","n","e","t">>,
    <<"x","s","m","a","i","l",".","c","o","m">>,
    <<"y","e","p","m","a","i","l",".","n","e","t">>,
    <<"y","o","u","r","-","m","a","i","l",".","c","o","m">>
    }

\* _YAHOO_DOMAINS (request.py lines 212-266): a set of str.
YAHOO_DOMAINS == {
    <<"y","7","m","a","i","l",".","c","o","m">>,
    <<"y","a","h","o","o",".","a","t">>,
    <<"y","a","h","o","o",".","b","e">>,
    <<"y","a","h","o","o",".","b","g">>,
    <<"y","a","h","o","o",".","c","a">>,
    <<"y","a","h","o","o",".","c","l">>,
    <<"y","a","h","o","o",".","c","o",".","i","d">>,
    <<"y","a","h","o","o",".","c","o",".","i","l">>,
    <<"y","a","h","o","o",".","c","o",".","i","n">>,
    <<"y","a","h","o","o",".","c","o",".","k","r">>,
    <<"y","a","h","o","o",".","c","o",".","n","z">>,
    <<"y","a","h","o","o",".","c","o",".","t","h">>,
    <<"y","a","h","o","o",".","c","o",".","u","k">>,
    <<"y","a","h","o","o",".","c","o",".","z","a">>,
    <<"y","a","h","o","o",".","c","o","m">>,
    <<"y","a","h","o","o",".","c","o","m",".","a","r">>,
    <<"y","a","h","o","o",".","c","o","m",".","a","u">>,
    <<"y","a","h","o","o",".","c","o","m",".","b","r">>,
    <<"y","a","h","o","o",".","c","o","m",".","c","o">>,
    <<"y","a","h","o","o",".","c","o","m",".","h","k">>,
    <<"y","a","h","o","o",".","c","o","m",".","h","r">>,
    <<"y","a","h","o","o",".","c","o","m",".","m","x">>,
    <<"y","a","h","o","o",".","c","o","m",".","m","y">>,
    <<"y","a","h","o","o",".","c","o","m",".","p","e">>,
    <<"y","a","h","o","o",".","c","o","m",".","p","h">>,
    <<"y","a","h","o","o",".","c","o","m",".","s","g">>,
    <<"y","a","h","o","o",".","c","o","m",".","t","r">>,
    <<"y","a","h","o","o",".","c","o","m",".","t","w">>,
    <<"y","a","h","o","o",".","c","o","m",".","u","a">>,
    <<"y","a","h","o","o",".","c","o","m",".","v","e">>,
    <<"y","a","h","o","o",".","c","o","m",".","v","n">>,
    <<"y","a","h","o","o",".","c","z">>,
    <<"y","a","h","o","o",".","d","e">>,
    <<"y","a","h","o","o",".","d","k">>,
    <<"y","a","h","o","o",".","e","e">>,
    <<"y","a","h","o","o",".","e","s">>,
    <<"y","a","h","o","o",".","f","i">>,
    <<"y","a","h","o","o",".","f","r">>,
    <<"y","a","h","o","o",".","g","r">>,
    <<"y","a","h","o","o",".","h","u">>,
    <<"y","a","h","o","o",".","i","e">>,
    <<"y","a","h","o","o",".","i","n">>,
    <<"y","a","h","o","o",".","i","t">>,
    <<"y","a","h","o","o",".","l","t">>,
    <<"y","a","h","o","o",".","l","v">>,
    <<"y","a","h","o","o",".","n","l">>,
    <<"y","a","h","o","o",".","n","o">>,
    <<"y","a","h","o","o",".","p","l">>,
    <<"y","a","h","o","o",".","p","t">>,
    <<"y","a","h","o","o",".","r","o">>,
    <<"y","a","h","o","o",".","s","e">>,
    <<"y","a","h","o","o",".","s","k">>,
    <<"y","m","a","i","l",".","c","o","m">>
    }

\* dict.get(key, default)
Get(table, key, default) == IF key \in DOMAIN table THEN table[key] ELSE default

---------------------------------------------------------------------------
(* request.py: _clean_domain, _clean_email                                 *)

Ok(v) == [exc |-> "none", v |-> v]

Raise(e) == [exc |-> e, v |-> <<>>]

\* The longest label of the idna codec: a label of 64 or more characters
\* is too long.
IdnaMaxLabel == 63

\* s.encode("idna").decode("ASCII") for ASCII s: s itself, unless a label
\* before the last is empty or any label is too long (UnicodeError).
idna_encode(s) ==
    IF s = <<>> THEN Ok(s)
    ELSE LET labels == Split(s)
             n == Len(labels)
         IN IF \/ \E i \in 1..(n - 1) :
                      ~(0 < Len(labels[i]) /\ Len(labels[i]) <= IdnaMaxLabel)
               \/ Len(labels[n]) > IdnaMaxLabel
            THEN Raise("UnicodeError")
            ELSE Ok(s)

\* re.sub(r"(?:\.com){2,}$", ".com", domain): the leftmost place from which
\* two or more ".com" run up to the end is cut down to one ".com".
sub_dot_coms(domain) ==
    LET starts == {<<i, e>> \in (0..Len(domain)) \X DollarEnds(domain) :
                       /\ i + 8 <= e
                       /\ IsDotComs(Slice(domain, i, e))}
    IN IF starts = {} THEN domain
       ELSE LET m == CHOOSE x \in starts : \A y \in starts : x[1] <= y[1]
            IN Slice(domain, 0, m[1]) \o DotCom \o SliceFrom(domain, m[2])

GmailCom == <<"g","m","a","i","l",".","c","o","m">>

GmaiCom == <<"g","m","a","i",".","c","o","m">>

\* re.sub(r"^\d+(?:gmail?\.com)$", "gmail.com", domain)
sub_numeric_gmail(domain) ==
    LET ends == {e \in DollarEnds(domain) :
                     \E n \in 1..e :
                         /\ \A i \in 1..n : domain[i] \in Digits
                         /\ Slice(domain, n, e) \in {GmailCom, GmaiCom}}
    IN IF ends = {} THEN domain
       ELSE GmailCom \o SliceFrom(domain, CHOOSE e \in ends : TRUE)

\* domain[:idx] + "." + typo_tld when the table has the TLD (lines 359-360);
\* typo_tld is <<>> when it has not.
replace_tld(domain, idx, typo_tld) ==
    IF typo_tld # <<>> THEN Slice(domain, 0, idx) \o <<".">> \o typo_tld ELSE domain

\* The TLD typo step of _clean_domain (lines 355-360).
tld_at(domain, idx) ==
    IF idx # -1
    THEN replace_tld(domain, idx, Get(TYPO_TLDS, SliceFrom(domain, idx + 1), <<>>))
    ELSE domain

fix_typo_tld(domain) == tld_at(domain, RFind(domain, "."))

\* _TYPO_DOMAINS.get(domain, domain) (line 362)
typo_domain(domain) == Get(TYPO_DOMAINS, domain, domain)

\* _EQUIVALENT_DOMAINS.get(domain, domain) (line 363)
equivalent_domain(domain) == Get(EQUIVALENT_DOMAINS, domain, domain)

\* The TLD typo corrected after the lookups in the two tables.
rewrite_domain_tld_last(domain) ==
    fix_typo_tld(equivalent_domain(typo_domain(sub_numeric_gmail(sub_dot_coms(domain)))))

\* _clean_domain after the idna codec (lines 352-363), in the order of
\* the code.
rewrite_domain(domain) ==
    equivalent_domain(typo_domain(fix_typo_tld(sub_numeric_gmail(sub_dot_coms(domain)))))

after_idna(enc) == IF enc.exc # "none" THEN enc ELSE Ok(rewrite_domain(enc.v))

\* _clean_domain(domain): [exc, v]
clean_domain(domain) == after_idna(idna_encode(RStripDots(Strip(domain))))

\* The cut made for a divider at index 0 as well.
cut_alias_from_zero(local_part, alias_idx) ==
    IF alias_idx >= 0 THEN Slice(local_part, 0, alias_idx) ELSE local_part

\* The cut at the divider (lines 382-384).
cut_alias(local_part, alias_idx) ==
    IF alias_idx > 0 THEN Slice(local_part, 0, alias_idx) ELSE local_part

\* The alias step of _clean_email (lines 380-384).
strip_alias(local_part, domain) ==
    cut_alias(local_part, Find(local_part, IF domain \in YAHOO_DOMAINS THEN "-" ELSE "+"))

GoogleMailCom == <<"g","o","o","g","l","e","m","a","i","l",".","c","o","m">>

\* The dots removed for the domain as it was typed, googlemail.com, and
\* not for gmail.com.
strip_googlemail_dots(local_part, domain) ==
    IF domain = GoogleMailCom THEN Remove(local_part, ".") ELSE local_part

\* The gmail step of _clean_email (lines 386-387).
strip_gmail_dots(local_part, domain) ==
    IF domain = GmailCom THEN Remove(local_part, ".") ELSE local_part

\* What _clean_email returns: [exc, found, address, domain]; found is
\* FALSE for (None, None).
Cleaned(local_part, domain) ==
    [exc |-> "none", found |-> TRUE,
     address |-> local_part \o <<"@">> \o domain, domain |-> domain]

NotCleaned(exc) == [exc |-> exc, found |-> FALSE, address |-> <<>>, domain |-> <<>>]

\* The Fastmail step of _clean_email and its return (lines 389-397).
\* The local part replaced when it is empty as well.
fold_parts_empty_too(local_part, domain, domain_parts, possible_domain) ==
    IF Len(domain_parts) > 2 /\ possible_domain \in FASTMAIL_DOMAINS
    THEN Cleaned(domain_parts[1], possible_domain)
    ELSE Cleaned(local_part, domain)

fold_parts(local_part, domain, domain_parts, possible_domain) ==
    IF Len(domain_parts) > 2 /\ possible_domain \in FASTMAIL_DOMAINS
    THEN Cleaned(IF local_part # <<>> THEN domain_parts[1] ELSE local_part, possible_domain)
    ELSE Cleaned(local_part, domain)

fold_fastmail(local_part, domain) ==
    fold_parts(local_part, domain, Split(domain), Join(Tail(Split(domain))))

\* _clean_email once the domain is cleaned (lines 375-397); on ASCII
\* text unicodedata.normalize("NFC", local_part) is local_part.
clean_local(local_part, dom) ==
    IF dom.exc # "none" THEN NotCleaned(dom.exc)
    ELSE fold_fastmail(strip_gmail_dots(strip_alias(local_part, dom.v), dom.v), dom.v)

\* _clean_email at the last "@" (lines 369-375).
split_at(address, at_idx) ==
    IF at_idx = -1 THEN NotCleaned("none")
    ELSE clean_local(Slice(address, 0, at_idx),
                     clean_domain(SliceFrom(address, at_idx + 1)))

find_at(address) == split_at(address, RFind(address, "@"))

\* _clean_email(address)
clean_email(addr) == find_at(Strip(Lower(addr)))

---------------------------------------------------------------------------
(* validation.py: the field checkers.  A checker gives "ok", "invalid"     *)
(* (voluptuous records an Invalid error for the field) or the class of an  *)
(* exception that is no Invalid and so leaves the validator as it is.      *)

Range(seq) == {seq[i] : i \in DOMAIN seq}

Upper == Range(UpperCase)

LowerLetters == Range(LowerCase)

HexDigits == Digits \cup {"a","b","c","d","e","f","A","B","C","D","E","F"}

\* The printable ASCII characters other than the space, \x21-\x7e (but
\* for the grave accent, which a TLA+ string cannot hold and no modelled
\* text contains).
Graphic ==
    Upper \cup LowerLetters \cup Digits \cup
    {"!", "\"", "#", "$", "%", "&", "'", "(", ")", "*", "+", ",", "-", ".",
     "/", ":", ";", "<", "=", ">", "?", "@", "[", "\\", "]", "^", "_",
     "{", "|", "}", "~"}

IsStr(x) == x.t \in {"str", "md5"}

IsBool(x) == x.t = "bool"

\* isinstance(x, int): a bool is an int.
IsInt(x) == x.t \in {"int", "bool"}

\* _any_number = Any(float, int, Decimal)
any_number(x) == x.t \in {"int", "bool", "float", "decimal"}

\* re.match of "^[class]{n}$" for n in lens: "$" also matches before a
\* final newline.
MatchClass(s, class, lens) ==
    \E e \in DollarEnds(s) : e \in lens /\ \A i \in 1..e : s[i] \in class

\* A Match(...) validator: a value that is no str is invalid.
MatchField(x, class, lens) ==
    IF x.t = "md5" THEN IF 32 \in lens /\ HexDigits \subseteq class /\ class # {} THEN "ok" ELSE "invalid"
    ELSE IF x.t = "str" /\ MatchClass(x.v, class, lens) THEN "ok" ELSE "invalid"

\* An In([...]) validator.
InField(x, container) ==
    IF x.t = "str" /\ x.v \in container THEN "ok" ELSE "invalid"

TypeField(ok) == IF ok THEN "ok" ELSE "invalid"

\* Numbers: the text of an int is an optional "-" and digits, that of a
\* float or Decimal has a "." as well; True is 1 and False is 0.
NumText(x) == IF x = True THEN <<"1">> ELSE IF x = False THEN <<"0">> ELSE x.v

NumNegative(x) == NumText(x) # <<>> /\ NumText(x)[1] = "-"

NumUnsigned(x) == IF NumNegative(x) THEN Tail(NumText(x)) ELSE NumText(x)

RECURSIVE StripZeros(_)
StripZeros(ds) == IF ds # <<>> /\ ds[1] = "0" THEN StripZeros(Tail(ds)) ELSE ds

\* The digits of the integer part, without leading zeros.
NumIntPart(x) ==
    LET u == NumUnsigned(x)
        i == Find(u, ".")
    IN StripZeros(IF i = -1 THEN u ELSE Slice(u, 0, i))

NumHasFraction(x) ==
    LET u == NumUnsigned(x)
        i == Find(u, ".")
    IN i # -1 /\ \E j \in (i + 2)..Len(u) : u[j] # "0"

NumIsZero(x) == NumIntPart(x) = <<>> /\ ~NumHasFraction(x)

DigitValue(c) == CHOOSE n \in 0..9 : <<"0","1","2","3","4","5","6","7","8","9">>[n + 1] = c

RECURSIVE ToNat(_)
ToNat(ds) == IF ds = <<>> THEN 0 ELSE 10 * ToNat(SubSeq(ds, 1, Len(ds) - 1)) + DigitValue(ds[Len(ds)])

\* x > 0, x >= 0
NumPositive(x) == ~NumNegative(x) /\ ~NumIsZero(x)

NumNonNegative(x) == ~NumNegative(x) \/ NumIsZero(x)

\* lo <= x <= hi for 0 < lo <= hi < 100000
NumBetween(x, lo, hi) ==
    /\ ~NumNegative(x)
    /\ Len(NumIntPart(x)) <= 5
    /\ LET n == ToNat(NumIntPart(x))
       IN /\ lo <= n
          /\ n < hi \/ (n = hi /\ ~NumHasFraction(x))

\* -1e13 < x < 1e13
NumCustomRange(x) == Len(NumIntPart(x)) <= 13

\* _custom_input_key = All(str, Match(r"^[a-z0-9_]{1,25}$"))
custom_input_key(k) == MatchClass(k, LowerLetters \cup Digits \cup {"_"}, 1..25)

\* _custom_input_value
custom_input_value(x) ==
    TypeField(\/ x.t = "str" /\ Len(x.v) \in 1..255 /\ \A i \in DOMAIN x.v : x.v[i] # "\n"
              \/ x.t = "md5"
              \/ any_number(x) /\ NumCustomRange(x)
              \/ IsBool(x))

\* _md5 = All(str, Match(r"^[0-9A-Fa-f]{32}$"))
md5(x) == MatchField(x, HexDigits, {32})

\* _country_code = All(str, Match(r"^[A-Z]{2}$"))
country_code(x) == MatchField(x, Upper, {2})

\* _telephone_country_code
telephone_country_code(x) ==
    TypeField(\/ x.t = "str" /\ MatchClass(x.v, Digits, 1..4)
              \/ IsInt(x) /\ NumBetween(x, 1, 9999))

\* _subdivision_iso_code = All(str, Match(r"^[0-9A-Z]{1,4}$"))
subdivision_iso_code(x) == MatchField(x, Digits \cup Upper, 1..4)

\* ipaddress.IPv4Address(s): four decimal octets of at most three digits,
\* without a leading zero, at most 255.
IsIPv4(s) ==
    LET parts == Split(s) IN
    /\ Len(parts) = 4
    /\ \A i \in 1..4 :
           /\ Len(parts[i]) \in 1..3
           /\ \A j \in DOMAIN parts[i] : parts[i][j] \in Digits
           /\ Len(parts[i]) > 1 => parts[i][1] # "0"
           /\ ToNat(parts[i]) <= 255

\* s.split(":")
RECURSIVE SplitColon(_)
SplitColon(s) ==
    LET i == Find(s, ":") IN
    IF i = -1 THEN <<s>> ELSE <<Slice(s, 0, i)>> \o SplitColon(SliceFrom(s, i + 1))

IsHextet(p) == Len(p) \in 1..4 /\ \A j \in DOMAIN p : p[j] \in HexDigits

\* ipaddress.IPv6Address(s) for an address without a scope id: eight
\* hextets, the last two of which may be written as an IPv4 address, and
\* at most one "::" standing for one or more zero hextets.
IsIPv6(s) ==
    LET raw == SplitColon(s)
        n == Len(raw)
        v4 == n >= 1 /\ Find(raw[n], ".") # -1
        \* an embedded IPv4 address counts as two hextets
        len == IF v4 THEN n + 1 ELSE n
        last == IF v4 THEN <<"0">> ELSE raw[n]
        part(i) == IF i < n THEN raw[i] ELSE last
        skips == {i \in 2..(len - 1) : part(i) = <<>>}
    IN /\ n >= 3
       /\ v4 => IsIPv4(raw[n])
       /\ len <= 9
       /\ Cardinality(skips) <= 1
       /\ IF skips # {}
          THEN LET k == CHOOSE i \in skips : TRUE
                   hi == (k - 1) - (IF part(1) = <<>> THEN 1 ELSE 0)
                   lo == (len - k) - (IF part(len) = <<>> THEN 1 ELSE 0)
               IN /\ part(1) = <<>> => hi = 0
                  /\ part(len) = <<>> => lo = 0
                  /\ 8 - (hi + lo) >= 1
                  /\ \A i \in 1..len : part(i) # <<>> => IsHextet(part(i))
          ELSE /\ len = 8
               /\ \A i \in 1..len : IsHextet(part(i))

\* _ip_address(s)
ip_address(x) ==
    TypeField(/\ x.t = "str"
              /\ ~MatchClass(x.v, Digits, 1..Len(x.v))
              /\ IsIPv4(x.v) \/ IsIPv6(x.v))

\* The characters email_validator allows in an unquoted local part, the
\* "." apart.
AText ==
    Upper \cup LowerLetters \cup Digits \cup
    {"!", "#", "$", "%", "&", "'", "*", "+", "-", "/", "=", "?", "^", "_",
     "{", "|", "}", "~"}

IsHostLabel(l) ==
    /\ Len(l) \in 1..63
    /\ \A j \in DOMAIN l : l[j] \in Upper \cup LowerLetters \cup Digits \cup {"-"}
    /\ l[1] # "-" /\ l[Len(l)] # "-"

\* validate_email(s, check_deliverability=False) of the email_validator
\* package, for ASCII text without quoted local parts: one "@", a dot-atom
\* local part of at most 64 characters, and a domain of two or more host
\* labels whose last one is not numeric.
IsEmail(s) ==
    LET at == Find(s, "@")
        local == Slice(s, 0, at)
        labels == Split(SliceFrom(s, at + 1))
    IN /\ at # -1 /\ at = RFind(s, "@")
       /\ Len(local) \in 1..64
       /\ \A j \in DOMAIN local : local[j] \in AText \cup {"."}
       /\ \A part \in Range(Split(local)) : part # <<>>
       /\ Len(labels) >= 2
       /\ \A l \in Range(labels) : IsHostLabel(l)
       /\ \E j \in DOMAIN labels[Len(labels)] : labels[Len(labels)][j] \notin Digits
       /\ Len(SliceFrom(s, at + 1)) <= 253

\* _email_or_md5(s): re.match raises TypeError for a value that is no str.
email_or_md5(x) ==
    IF ~IsStr(x) THEN "TypeError"
    ELSE IF x.t = "md5" \/ MatchClass(x.v, HexDigits, {32}) THEN "ok"
    ELSE TypeField(IsEmail(x.v))

\* A label for _hostname: (?!-)[A-Z\d-]{1,63}(?<!-)$ with IGNORECASE,
\* applied by re.match.
IsHostnameLabel(l) ==
    \E e \in DollarEnds(l) :
        /\ e \in 1..63
        /\ \A j \in 1..e : l[j] \in Upper \cup LowerLetters \cup Digits \cup {"-"}
        /\ l[1] # "-" /\ l[e] # "-"

\* _hostname(hostname): len() of a number raises TypeError, and a list or
\* a dict has no split (AttributeError).
hostname(x) ==
    IF x.t \in {"int", "bool", "float", "decimal"} THEN "TypeError"
    ELSE IF x.t = "ref" THEN "AttributeError"
    ELSE IF x.t = "md5" THEN "ok"
    ELSE TypeField(/\ Len(x.v) <= 255
                   /\ \A l \in Range(Split(x.v)) : IsHostnameLabel(l))

\* _delivery_speed (validation.py lines 81-81)
delivery_speeds == {
    <<"s","a","m","e","_","d","a","y">>,
    <<"o","v","e","r","n","i","g","h","t">>,
    <<"e","x","p","e","d","i","t","e","d">>,
    <<"s","t","a","n","d","a","r","d">>
    }

\* _payment_processor (validation.py lines 101-263)
payment_processors == {
    <<"a","d","y","e","n">>,
    <<"a","f","f","i","r","m">>,
    <<"a","f","t","e","r","p","a","y">>,
    <<"a","l","t","a","p","a","y">>,
    <<"a","m","a","z","o","n","_","p","a","y","m","e","n","t","s">>,
    <<"a","m","e","r","i","c","a","n","_","e","x","p","r","e","s","s","_","p","a","y","m","e","n","t","_","g","a","t","e","w","a","y">>,
    <<"a","p","p","l","e","_","p","a","y">>,
    <<"a","p","s","_","p","a","y","m","e","n","t","s">>,
    <<"a","u","t","h","o","r","i","z","e","n","e","t">>,
    <<"b","a","l","a","n","c","e","d">>,
    <<"b","e","a","n","s","t","r","e","a","m">>,
    <<"b","l","u","e","p","a","y">>,
    <<"b","l","u","e","s","n","a","p">>,
    <<"b","o","a","c","o","m","p","r","a">>,
    <<"b","o","k","u">>,
    <<"b","p","o","i","n","t">>,
    <<"b","r","a","i","n","t","r","e","e">>,
    <<"c","a","r","d","k","n","o","x">>,
    <<"c","a","r","d","p","a","y">>,
    <<"c","a","s","h","f","r","e","e">>,
    <<"c","c","a","v","e","n","u","e">>,
    <<"c","c","n","o","w">>,
    <<"c","e","t","e","l","e","m">>,
    <<"c","h","a","s","e","_","p","a","y","m","e","n","t","e","c","h">>,
    <<"c","h","e","c","k","o","u","t","_","c","o","m">>,
    <<"c","i","e","l","o">>,
    <<"c","o","l","l","e","c","t","o","r">>,
    <<"c","o","m","m","d","o","o">>,
    <<"c","o","m","p","r","o","p","a","g","o">>,
    <<"c","o","n","c","e","p","t","_","p","a","y","m","e","n","t","s">>,
    <<"c","o","n","e","k","t","a">>,
    <<"c","o","r","e","g","a","t","e","w","a","y">>,
    <<"c","r","e","d","i","t","g","u","a","r","d">>,
    <<"c","r","e","d","o","r","a","x">>,
    <<"c","r","y","p","t","o","m","u","s">>,
    <<"c","t","_","p","a","y","m","e","n","t","s">>,
    <<"c","u","e","n","t","a","d","i","g","i","t","a","l">>,
    <<"c","u","r","o","p","a","y","m","e","n","t","s">>,
    <<"c","y","b","e","r","s","o","u","r","c","e">>,
    <<"d","a","l","e","n","y","s">>,
    <<"d","a","l","p","a","y">>,
    <<"d","a","t","a","c","a","p">>,
    <<"d","a","t","a","c","a","s","h">>,
    <<"d","i","b","s">>,
    <<"d","i","g","i","t","a","l","_","r","i","v","e","r">>,
    <<"d","l","o","c","a","l">>,
    <<"d","o","t","p","a","y">>,
    <<"e","b","s">>,
    <<"e","c","o","m","m","3","6","5">>,
    <<"e","c","o","m","m","p","a","y">>,
    <<"e","l","a","v","o","n">>,
    <<"e","m","e","r","c","h","a","n","t","p","a","y">>,
    <<"e","p","a","y">>,
    <<"e","p","a","y","c","o">>,
    <<"e","p","r","o","c","e","s","s","i","n","g","_","n","e","t","w","o","r","k">>,
    <<"e","p","x">>,
    <<"e","w","a","y">>,
    <<"e","x","a","c","t">>,
    <<"f","i","r","s","t","_","a","t","l","a","n","t","i","c","_","c","o","m","m","e","r","c","e">>,
    <<"f","i","r","s","t","_","d","a","t","a">>,
    <<"f","i","s","e","r","v">>,
    <<"g","2","a","_","p","a","y">>,
    <<"g","l","o","b","a","l","_","p","a","y","m","e","n","t","s">>,
    <<"g","o","c","a","r","d","l","e","s","s">>,
    <<"g","o","o","g","l","e","_","p","a","y">>,
    <<"h","e","a","r","t","l","a","n","d">>,
    <<"h","i","p","a","y">>,
    <<"i","n","g","e","n","i","c","o">>,
    <<"i","n","t","e","r","a","c">>,
    <<"i","n","t","e","r","n","e","t","s","e","c","u","r","e">>,
    <<"i","n","t","u","i","t","_","q","u","i","c","k","b","o","o","k","s","_","p","a","y","m","e","n","t","s">>,
    <<"i","u","g","u">>,
    <<"k","l","a","r","n","a">>,
    <<"k","o","m","o","j","u">>,
    <<"l","e","m","o","n","_","w","a","y">>,
    <<"m","a","s","t","e","r","c","a","r","d","_","p","a","y","m","e","n","t","_","g","a","t","e","w","a","y">>,
    <<"m","e","r","c","a","d","o","p","a","g","o">>,
    <<"m","e","r","c","a","n","e","t">>,
    <<"m","e","r","c","h","a","n","t","_","e","s","o","l","u","t","i","o","n","s">>,
    <<"m","i","r","j","e","h">>,
    <<"m","o","l","l","i","e">>,
    <<"m","o","n","e","r","i","s","_","s","o","l","u","t","i","o","n","s">>,
    <<"n","e","o","p","a","y">>,
    <<"n","e","o","s","u","r","f">>,
    <<"n","m","i">>,
    <<"o","c","e","a","n","p","a","y","m","e","n","t">>,
    <<"o","n","e","y">>,
    <<"o","n","p","a","y">>,
    <<"o","p","e","n","b","u","c","k","s">>,
    <<"o","p","e","n","p","a","y","m","x">>,
    <<"o","p","t","i","m","a","l","_","p","a","y","m","e","n","t","s">>,
    <<"o","r","a","n","g","e","p","a","y">>,
    <<"o","t","h","e","r">>,
    <<"p","a","c","n","e","t","_","s","e","r","v","i","c","e","s">>,
    <<"p","a","y","c","o","n","e","x">>,
    <<"p","a","y","e","e","z","y">>,
    <<"p","a","y","f","a","s","t">>,
    <<"p","a","y","g","a","t","e">>,
    <<"p","a","y","l","i","k","e">>,
    <<"p","a","y","m","e","n","t","_","e","x","p","r","e","s","s">>,
    <<"p","a","y","m","e","n","t","w","a","l","l">>,
    <<"p","a","y","o","n","e">>,
    <<"p","a","y","p","a","l">>,
    <<"p","a","y","p","l","u","s">>,
    <<"p","a","y","s","a","f","e","c","a","r","d">>,
    <<"p","a","y","s","e","r","a">>,
    <<"p","a","y","s","t","a","t","i","o","n">>,
    <<"p","a","y","t","m">>,
    <<"p","a","y","t","r","a","c","e">>,
    <<"p","a","y","t","r","a","i","l">>,
    <<"p","a","y","t","u","r","e">>,
    <<"p","a","y","u">>,
    <<"p","a","y","u","l","a","t","a","m">>,
    <<"p","a","y","v","i","s","i","o","n">>,
    <<"p","a","y","w","a","y">>,
    <<"p","a","y","z","a">>,
    <<"p","i","n","p","a","y","m","e","n","t","s">>,
    <<"p","l","a","c","e","t","o","p","a","y">>,
    <<"p","o","s","c","o","n","n","e","c","t">>,
    <<"p","r","i","n","c","e","t","o","n","_","p","a","y","m","e","n","t","_","s","o","l","u","t","i","o","n","s">>,
    <<"p","s","i","g","a","t","e">>,
    <<"p","x","p","_","f","i","n","a","n","c","i","a","l">>,
    <<"q","i","w","i">>,
    <<"q","u","i","c","k","p","a","y">>,
    <<"r","a","b","e","r","i","l">>,
    <<"r","a","z","o","r","p","a","y">>,
    <<"r","e","d","e">>,
    <<"r","e","d","p","a","g","o","s">>,
    <<"r","e","w","a","r","d","s","p","a","y">>,
    <<"s","a","f","e","c","h","a","r","g","e">>,
    <<"s","a","g","e","p","a","y">>,
    <<"s","e","c","u","r","e","t","r","a","d","i","n","g">>,
    <<"s","h","o","p","i","f","y","_","p","a","y","m","e","n","t","s">>,
    <<"s","i","m","p","l","i","f","y","_","c","o","m","m","e","r","c","e">>,
    <<"s","k","r","i","l","l">>,
    <<"s","m","a","r","t","c","o","i","n">>,
    <<"s","m","a","r","t","d","e","b","i","t">>,
    <<"s","o","l","i","d","t","r","u","s","t","_","p","a","y">>,
    <<"s","p","s","_","d","e","c","i","d","i","r">>,
    <<"s","t","r","i","p","e">>,
    <<"s","y","n","a","p","s","e","f","i">>,
    <<"s","y","s","t","e","m","p","a","y">>,
    <<"t","e","l","e","r","e","c","a","r","g","a","s">>,
    <<"t","o","w","a","h">>,
    <<"t","r","a","n","s","a","c","t","_","p","r","o">>,
    <<"t","r","u","s","t","l","y">>,
    <<"t","r","u","s","t","p","a","y">>,
    <<"t","s","y","s">>,
    <<"u","s","a","_","e","p","a","y">>,
    <<"v","a","n","t","i","v">>,
    <<"v","e","r","e","p","a","y">>,
    <<"v","e","r","i","c","h","e","c","k">>,
    <<"v","i","n","d","i","c","i","a">>,
    <<"v","i","r","t","u","a","l","_","c","a","r","d","_","s","e","r","v","i","c","e","s">>,
    <<"v","m","e">>,
    <<"v","p","o","s">>,
    <<"w","i","n","d","c","a","v","e">>,
    <<"w","i","r","e","c","a","r","d">>,
    <<"w","o","r","l","d","p","a","y">>
    }

\* _event_type (validation.py lines 283-295)
event_types == {
    <<"a","c","c","o","u","n","t","_","c","r","e","a","t","i","o","n">>,
    <<"a","c","c","o","u","n","t","_","l","o","g","i","n">>,
    <<"e","m","a","i","l","_","c","h","a","n","g","e">>,
    <<"p","a","s","s","w","o","r","d","_","r","e","s","e","t">>,
    <<"p","a","y","o","u","t","_","c","h","a","n","g","e">>,
    <<"p","u","r","c","h","a","s","e">>,
    <<"r","e","c","u","r","r","i","n","g","_","p","u","r","c","h","a","s","e">>,
    <<"r","e","f","e","r","r","a","l">>,
    <<"s","u","r","v","e","y">>
    }

\* _tag (validation.py lines 382-382)
tags == {
    <<"c","h","a","r","g","e","b","a","c","k">>,
    <<"n","o","t","_","f","r","a","u","d">>,
    <<"s","p","a","m","_","o","r","_","a","b","u","s","e">>,
    <<"s","u","s","p","e","c","t","e","d","_","f","r","a","u","d">>
    }

\* _single_char = Match("^[A-Za-z0-9]$")
single_char(x) == MatchField(x, Upper \cup LowerLetters \cup Digits, {1})

\* _iin = Match("^(?:[0-9]{6}|[0-9]{8})$")
iin(x) == MatchField(x, Digits, {6, 8})

\* _credit_card_last_digits = Match("^(?:[0-9]{2}|[0-9]{4})$")
credit_card_last_digits(x) == MatchField(x, Digits, {2, 4})

\* _credit_card_token(s)
\* The digits test without its bound of 19: every all-digit token is
\* refused.
credit_card_token_no_digits(x) ==
    IF ~IsStr(x) THEN "TypeError"
    ELSE IF x.t = "md5" THEN "ok"
    ELSE TypeField(/\ MatchClass(x.v, Graphic, 1..255)
                   /\ ~MatchClass(x.v, Digits, 1..255))

credit_card_token(x) ==
    IF ~IsStr(x) THEN "TypeError"
    ELSE IF x.t = "md5" THEN "ok"
    ELSE TypeField(/\ MatchClass(x.v, Graphic, 1..255)
                   /\ ~MatchClass(x.v, Digits, 1..19))

\* _rfc3339_datetime
rfc3339_datetime(x) ==
    IF x.t # "str" THEN "invalid"
    ELSE LET s == x.v
             D(i) == i <= Len(s) /\ s[i] \in Digits
             C(i, cs) == i <= Len(s) /\ s[i] \in cs
             \* the end of the optional fraction that starts at index 20
             fracEnds == {19} \cup {e \in 21..Len(s) : s[20] = "." /\ \A j \in 21..e : s[j] \in Digits}
         IN TypeField(
              /\ \A i \in {1, 2, 3, 4, 6, 7, 9, 10, 12, 13, 15, 16, 18, 19} : D(i)
              /\ C(5, {"-"}) /\ C(8, {"-"}) /\ C(11, {"T", "t"})
              /\ C(14, {":"}) /\ C(17, {":"})
              /\ \E e \in fracEnds :
                     \/ Len(s) = e + 1 /\ C(e + 1, {"Z", "z"})
                     \/ /\ Len(s) = e + 6 /\ C(e + 1, {"+", "-"})
                        /\ D(e + 2) /\ D(e + 3) /\ C(e + 4, {":"})
                        /\ D(e + 5) /\ D(e + 6))

\* _currency_code = Match("^[A-Z]{3}$")
currency_code(x) == MatchField(x, Upper, {3})

\* _price = All(_any_number, Range(min=0, min_included=False))
price(x) == TypeField(any_number(x) /\ NumPositive(x))

\* The first index of s at or after a whose character is in cs, or Len(s).
FirstOf(s, a, cs) ==
    IF \E i \in (a + 1)..Len(s) : s[i] \in cs
    THEN (CHOOSE i \in (a + 1)..Len(s) : s[i] \in cs /\ \A j \in (a + 1)..(i - 1) : s[j] \notin cs) - 1
    ELSE Len(s)

\* _uri(s): urllib.parse.urlparse gives the scheme before the first ":"
\* and the netloc between "//" and the next "/", "?" or "#"; a value
\* that is no str has no decode (AttributeError).
uri(x) ==
    IF x.t = "ref" \/ any_number(x) THEN "AttributeError"
    ELSE IF x.t = "md5" THEN "invalid"
    ELSE LET s == x.v
             i == Find(s, ":")
             scheme == Lower(Slice(s, 0, IF i = -1 THEN 0 ELSE i))
             rest == SliceFrom(s, i + 1)
             netloc == IF Len(rest) >= 2 /\ Slice(rest, 0, 2) = <<"/", "/">>
                       THEN Slice(rest, 2, FirstOf(rest, 2, {"/", "?", "#"}))
                       ELSE <<>>
         IN TypeField(/\ scheme \in {<<"h","t","t","p">>, <<"h","t","t","p","s">>}
                      /\ netloc # <<>>)

\* _maxmind_id(s)
maxmind_id(x) == TypeField(IsStr(x) /\ (x.t = "md5" => FALSE) /\ (x.t = "str" => Len(x.v) = 8))

\* s.replace(sub, "")
RECURSIVE RemoveSub(_, _)
RemoveSub(s, sub) ==
    IF Len(s) < Len(sub) THEN s
    ELSE IF SubSeq(s, 1, Len(sub)) = sub THEN RemoveSub(SliceFrom(s, Len(sub)), sub)
    ELSE <<s[1]>> \o RemoveSub(Tail(s), sub)

\* s.strip("{}")
RECURSIVE StripBraces(_)
StripBraces(s) ==
    IF s # <<>> /\ s[1] \in {"{", "}"} THEN StripBraces(Tail(s))
    ELSE IF s # <<>> /\ s[Len(s)] \in {"{", "}"} THEN StripBraces(SubSeq(s, 1, Len(s) - 1))
    ELSE s

\* The 32 hexadecimal digits uuid.UUID(s) reads from s, or <<>> when it
\* raises ValueError.
uuid_hex(s) ==
    LET hex == Remove(StripBraces(RemoveSub(RemoveSub(s, <<"u","r","n",":">>),
                                            <<"u","u","i","d",":">>)), "-")
    IN IF Len(hex) = 32 /\ \A i \in DOMAIN hex : hex[i] \in HexDigits THEN hex ELSE <<>>

\* _non_empty_uuid(s): _uuid(s) is not the nil UUID.
non_empty_uuid(x) ==
    TypeField(/\ x.t = "str"
              /\ uuid_hex(x.v) # <<>>
              /\ \E i \in DOMAIN uuid_hex(x.v) : uuid_hex(x.v)[i] # "0")

\* _transaction_id(s)
transaction_id(x) == TypeField(IsStr(x) /\ (x.t = "str" => Len(x.v) > 0))

---------------------------------------------------------------------------
(* validation.py: validate_transaction, validate_report                    *)

\* _address (lines 83-95) and _shipping_address (lines 97-99)
address_schema ==
    [address |-> "str", address_2 |-> "str", city |-> "str", company |-> "str",
     country |-> "country_code", first_name |-> "str", last_name |-> "str",
     phone_country_code |-> "telephone_country_code", phone_number |-> "str",
     postal |-> "str", region |-> "subdivision_iso_code"]

shipping_address_schema == ("delivery_speed" :> "delivery_speed") @@ address_schema

\* The item schema of shopping_cart (lines 364-371)
cart_item_schema ==
    [category |-> "str", item_id |-> "str", price |-> "price", quantity |-> "quantity"]

\* The sections of validate_transaction (lines 310-373) whose schema is a
\* dict of named fields; custom_inputs and shopping_cart are apart.
transaction_schema ==
    [account |-> [user_id |-> "str", username_md5 |-> "md5"],
     billing |-> address_schema,
     payment |-> [processor |-> "payment_processor", was_authorized |-> "bool",
                  decline_code |-> "str"],
     credit_card |-> [avs_result |-> "single_char", bank_name |-> "str",
                      bank_phone_country_code |-> "telephone_country_code",
                      bank_phone_number |-> "str", country |-> "country_code",
                      cvv_result |-> "single_char", issuer_id_number |-> "iin",
                      last_digits |-> "credit_card_last_digits",
                      last_4_digits |-> "credit_card_last_digits",
                      token |-> "credit_card_token",
                      was_3d_secure_successful |-> "bool"],
     device |-> [accept_language |-> "str", ip_address |-> "ip_address",
                 session_age |-> "session_age", session_id |-> "str",
                 user_agent |-> "str"],
     email |-> [address |-> "email_or_md5", domain |-> "hostname"],
     event |-> [shop_id |-> "str", time |-> "rfc3339_datetime",
                type |-> "event_type", transaction_id |-> "str"],
     order |-> [affiliate_id |-> "str", amount |-> "price",
                currency |-> "currency_code", discount_code |-> "str",
                has_gift_message |-> "bool", is_gift |-> "bool",
                referrer_uri |-> "uri", subaffiliate_id |-> "str"],
     shipping |-> shipping_address_schema]

\* _validate_report_schema (lines 408-418)
report_schema ==
    [chargeback_code |-> "str", ip_address |-> "ip_address",
     maxmind_id |-> "maxmind_id", minfraud_id |-> "non_empty_uuid",
     notes |-> "str", tag |-> "tag", transaction_id |-> "transaction_id"]

\* The checker a schema names, applied to a value.
CheckField(name, x) ==
    CASE name = "str" -> TypeField(IsStr(x))
      [] name = "bool" -> TypeField(IsBool(x))
      [] name = "md5" -> md5(x)
      [] name = "country_code" -> country_code(x)
      [] name = "telephone_country_code" -> telephone_country_code(x)
      [] name = "subdivision_iso_code" -> subdivision_iso_code(x)
      [] name = "delivery_speed" -> InField(x, delivery_speeds)
      [] name = "payment_processor" -> InField(x, payment_processors)
      [] name = "single_char" -> single_char(x)
      [] name = "iin" -> iin(x)
      [] name = "credit_card_last_digits" -> credit_card_last_digits(x)
      [] name = "credit_card_token" -> credit_card_token(x)
      [] name = "ip_address" -> ip_address(x)
      \* All(_any_number, Range(min=0))
      [] name = "session_age" -> TypeField(any_number(x) /\ NumNonNegative(x))
      [] name = "email_or_md5" -> email_or_md5(x)
      [] name = "hostname" -> hostname(x)
      [] name = "rfc3339_datetime" -> rfc3339_datetime(x)
      [] name = "event_type" -> InField(x, event_types)
      [] name = "price" -> price(x)
      [] name = "currency_code" -> currency_code(x)
      [] name = "uri" -> uri(x)
      \* All(int, Range(min=1))
      [] name = "quantity" -> TypeField(IsInt(x) /\ NumPositive(x))
      [] name = "maxmind_id" -> maxmind_id(x)
      [] name = "non_empty_uuid" -> non_empty_uuid(x)
      [] name = "tag" -> InField(x, tags)
      [] name = "transaction_id" -> transaction_id(x)

\* The text of the keys the modelled requests use in custom_inputs.
KeyText ==
    [float_input |-> <<"f","l","o","a","t","_","i","n","p","u","t">>,
     InvalidKey |-> <<"I","n","v","a","l","i","d","K","e","y">>]

\* A dict validated against a schema of named fields: the outcomes, as
\* records [path, r].  A value that is no dict and a key the schema does
\* not have are invalid.
FieldOutcomes(h, x, schema, path) ==
    IF ~IsDict(h, x) THEN {[path |-> path, r |-> "invalid"]}
    ELSE LET m == h[Addr(x)].m IN
         {[path |-> Append(path, k),
           r |-> IF k \in DOMAIN schema THEN CheckField(schema[k], m[k]) ELSE "invalid"]
          : k \in DOMAIN m}

\* custom_inputs: {_custom_input_key: _custom_input_value}
CustomOutcomes(h, x) ==
    IF ~IsDict(h, x) THEN {[path |-> <<"custom_inputs">>, r |-> "invalid"]}
    ELSE LET m == h[Addr(x)].m IN
         {[path |-> <<"custom_inputs", k>>,
           r |-> IF k \in DOMAIN KeyText /\ custom_input_key(KeyText[k])
                 THEN custom_input_value(m[k]) ELSE "invalid"]
          : k \in DOMAIN m}

\* shopping_cart: a list of items
CartOutcomes(h, x) ==
    IF ~(IsRef(x) /\ h[Addr(x)].k = "list")
    THEN {[path |-> <<"shopping_cart">>, r |-> "invalid"]}
    ELSE LET items == h[Addr(x)].s IN
         UNION {FieldOutcomes(h, items[i], cart_item_schema,
                              <<"shopping_cart", ToString(i - 1)>>)
                : i \in DOMAIN items}

SectionOutcomes(h, k, x) ==
    CASE k = "custom_inputs" -> CustomOutcomes(h, x)
      [] k = "shopping_cart" -> CartOutcomes(h, x)
      [] k \in DOMAIN transaction_schema -> FieldOutcomes(h, x, transaction_schema[k], <<k>>)
      [] OTHER -> {[path |-> <<k>>, r |-> "invalid"]}

\* What a validator call gives: an exception that is no Invalid leaves it
\* at once; otherwise the paths of all invalid fields are collected.
VerdictOf(raised, invalid) ==
    IF raised # {}
    THEN [exc |-> (CHOOSE o \in raised : TRUE).r, errors |-> {}]
    ELSE [exc |-> "none", errors |-> {o.path : o \in invalid}]

Verdict(outcomes) ==
    VerdictOf({o \in outcomes : o.r \notin {"ok", "invalid"}},
              {o \in outcomes : o.r = "invalid"})

\* validate_transaction(request): [exc, errors]; MultipleInvalid is raised
\* when errors is not empty.
validate_transaction(h, x) ==
    IF ~IsDict(h, x) THEN [exc |-> "none", errors |-> {<<>>}]
    ELSE LET m == h[Addr(x)].m
         IN Verdict(UNION {SectionOutcomes(h, k, m[k]) : k \in DOMAIN m})

ReportIdentifiers == {"ip_address", "maxmind_id", "minfraud_id", "transaction_id"}

\* The identifier rule left out.
identifier_rule_skipped(h, x) == {}

\* _validate_at_least_one_identifier_field(report)
validate_at_least_one_identifier_field(h, x) ==
    IF DOMAIN h[Addr(x)].m \cap ReportIdentifiers = {} THEN {<<>>} ELSE {}

\* The outcomes of _validate_report_schema: tag is Required.
ReportOutcomes(h, x) ==
    FieldOutcomes(h, x, report_schema, <<>>)
    \cup (IF "tag" \in DOMAIN h[Addr(x)].m THEN {}
          ELSE {[path |-> <<"tag">>, r |-> "invalid"]})

\* The identifier rule runs when the schema raised nothing (lines 442-443).
then_identifier(h, x, v) ==
    IF v.exc # "none" \/ v.errors # {} THEN v
    ELSE [exc |-> "none", errors |-> validate_at_least_one_identifier_field(h, x)]

\* validate_report(report): the schema first (with its required tag), then
\* the identifier rule.
validate_report(h, x) ==
    IF ~IsDict(h, x) THEN [exc |-> "none", errors |-> {<<>>}]
    ELSE then_identifier(h, x, Verdict(ReportOutcomes(h, x)))

---------------------------------------------------------------------------
(* request.py: maybe_hash_email, clean_credit_card, prepare_transaction,   *)
(* prepare_report                                                          *)

\* d[key] = value and d.pop(key) on the dict a reference denotes: the
\* object is changed in place.
SetItem(h, d, key, value) ==
    [h EXCEPT ![Addr(d)].m = (key :> value) @@ @]

DelItem(h, d, key) ==
    [h EXCEPT ![Addr(d)].m = [k \in DOMAIN @ \ {key} |-> @[k]]]

\* hashlib.md5(text.encode("UTF-8")).hexdigest(): a str of 32 hexadecimal
\* digits that stands for the text hashed and holds none of it.
md5_hexdigest(text) == [t |-> "md5", v |-> text]

\* The stores with the canonical address left in cleartext.
store_clean_email(h, email, address, domain) ==
    LET h1 == IF domain # <<>> /\ "domain" \notin DOMAIN h[Addr(email)].m
              THEN SetItem(h, email, "domain", Str(domain))
              ELSE h
    IN SetItem(h1, email, "address", Str(address))

\* The stores with the domain written whether or not the email has one.
store_overwriting_domain(h, email, address, domain) ==
    LET h1 == IF domain # <<>>
              THEN SetItem(h, email, "domain", Str(domain))
              ELSE h
    IN SetItem(h1, email, "address", md5_hexdigest(address))

\* The two stores of maybe_hash_email (lines 343-346).
store_hashed_email(h, email, address, domain) ==
    LET h1 == IF domain # <<>> /\ "domain" \notin DOMAIN h[Addr(email)].m
              THEN SetItem(h, email, "domain", Str(domain))
              ELSE h
    IN SetItem(h1, email, "address", md5_hexdigest(address))

Done(h, exc) == [h |-> h, exc |-> exc]

\* The stores made without the test for (None, None).
hash_unfound(h, email, r) ==
    IF r.exc # "none" THEN Done(h, r.exc)
    ELSE Done(store_hashed_email(h, email, r.address, r.domain), "none")

\* maybe_hash_email once _clean_email has answered (lines 339-346).
hash_cleaned(h, email, r) ==
    IF r.exc # "none" THEN Done(h, r.exc)
    ELSE IF ~r.found THEN Done(h, "none")
    ELSE Done(store_hashed_email(h, email, r.address, r.domain), "none")

\* maybe_hash_email from the address (lines 336-346).
hash_address(h, email, address) ==
    IF address = None THEN Done(h, "none")
    \* address.lower() on a value that is no str
    ELSE IF ~IsStr(address) THEN Done(h, "AttributeError")
    \* a digest holds no "@"
    ELSE IF address.t = "md5" THEN Done(h, "none")
    ELSE hash_cleaned(h, email, clean_email(address.v))

\* maybe_hash_email from the email section (line 332).
hash_section(h, email) ==
    \* email["address"] on a value that is no dict
    IF ~IsDict(h, email) THEN Done(h, "TypeError")
    ELSE IF "address" \notin DOMAIN h[Addr(email)].m THEN Done(h, "none")
    ELSE hash_address(h, email, h[Addr(email)].m["address"])

\* maybe_hash_email(transaction): [h, exc].  transaction is a dict.
maybe_hash_email(h, transaction) ==
    IF "email" \notin DOMAIN h[Addr(transaction)].m THEN Done(h, "none")
    ELSE hash_section(h, h[Addr(transaction)].m["email"])

\* credit_card.pop("last_4_digits", None)
pop_last4(h, credit_card) ==
    IF "last_4_digits" \in DOMAIN h[Addr(credit_card)].m
    THEN [h |-> DelItem(h, credit_card, "last_4_digits"),
          v |-> h[Addr(credit_card)].m["last_4_digits"]]
    ELSE [h |-> h, v |-> None]

\* The rest of clean_credit_card (lines 319-325).
move_last4(credit_card, popped) ==
    IF Truthy(popped.h, popped.v)
    THEN [h |-> SetItem(popped.h, credit_card, "last_digits", popped.v), warned |-> 1]
    ELSE [h |-> popped.h, warned |-> 0]

\* clean_credit_card(credit_card): [h, warned]
clean_credit_card(h, credit_card) == move_last4(credit_card, pop_last4(h, credit_card))

\* What a prepare function gives: the heap, the exception raised or
\* "none", the value returned, the structures it handed to the validator
\* and the number of warnings it emitted.
Prepared(h, exc, v, seen, w) ==
    [h |-> h, exc |-> exc, v |-> v, validated |-> seen, warned |-> w]

\* The exception a validator verdict makes prepare_* raise, or "none".
ValidationError(verdict) ==
    IF verdict.exc # "none" THEN verdict.exc
    ELSE IF verdict.errors # {} THEN "InvalidRequestError"
    ELSE "none"

\* The argument prepare_transaction passes to clean_credit_card (line 302).
credit_card_argument(cleaned_request) == cleaned_request

\* cleaned_request.get("credit_card", None)
get_credit_card(h, cleaned_request) ==
    IF "credit_card" \in DOMAIN h[Addr(cleaned_request)].m
    THEN h[Addr(cleaned_request)].m["credit_card"]
    ELSE None

returned(cleaned_request, seen, cc) ==
    Prepared(cc.h, "none", cleaned_request, seen, cc.warned)

\* prepare_transaction from line 301.
then_credit_card(h, cleaned_request, seen) ==
    IF Truthy(h, get_credit_card(h, cleaned_request))
    THEN returned(cleaned_request, seen,
                  clean_credit_card(h, credit_card_argument(cleaned_request)))
    ELSE Prepared(h, "none", cleaned_request, seen, 0)

after_hash(hashed, cleaned_request, seen) ==
    IF hashed.exc # "none" THEN Prepared(hashed.h, hashed.exc, None, seen, 0)
    ELSE then_credit_card(hashed.h, cleaned_request, seen)

\* The email hashed whatever the flag.
then_hash_always(h, cleaned_request, hash_email, seen) ==
    after_hash(maybe_hash_email(h, cleaned_request), cleaned_request, seen)

\* prepare_transaction from line 298.
then_hash(h, cleaned_request, hash_email, seen) ==
    after_hash(IF hash_email THEN maybe_hash_email(h, cleaned_request) ELSE Done(h, "none"),
               cleaned_request, seen)

\* validate_email(s).normalized, which _email_or_md5 returns for a valid
\* ASCII address: the address with its domain in lower case.
email_normalized(s) ==
    Slice(s, 0, RFind(s, "@") + 1) \o Lower(SliceFrom(s, RFind(s, "@") + 1))

\* The value _email_or_md5 returns for an address it accepts.
email_or_md5_value(x) ==
    IF x.t = "md5" \/ MatchClass(x.v, HexDigits, {32}) THEN x
    ELSE Str(email_normalized(x.v))

\* The heap with the value returned for email.address stored in the
\* structure validated.
address_written_back(h, cleaned_request) ==
    IF /\ "email" \in DOMAIN h[Addr(cleaned_request)].m
       /\ "address" \in DOMAIN h[Addr(h[Addr(cleaned_request)].m["email"])].m
    THEN SetItem(h, h[Addr(cleaned_request)].m["email"], "address",
                 email_or_md5_value(
                     h[Addr(h[Addr(cleaned_request)].m["email"])].m["address"]))
    ELSE h

\* The values the validator returns kept in the request.
after_validation_written_back(h, cleaned_request, hash_email, error, seen) ==
    IF error # "none" THEN Prepared(h, error, None, seen, 0)
    ELSE then_hash(address_written_back(h, cleaned_request), cleaned_request,
                   hash_email, seen)

\* The validator is called for its exception alone: the structure it
\* returns, which holds the normalized values, is dropped (line 293).
after_validation(h, cleaned_request, hash_email, error, seen) ==
    IF error # "none" THEN Prepared(h, error, None, seen, 0)
    ELSE then_hash(h, cleaned_request, hash_email, seen)

\* The validation of a structure already hashed and cleaned.
validate_prepared(p, error) ==
    Prepared(p.h, error, IF error = "none" THEN p.v ELSE None,
             <<View(p.h, p.v)>>, p.warned)

\* The steps in another order: hash the email and clean the credit card,
\* then validate.
finish_hash_first(h, cleaned_request, validate, hash_email) ==
    IF validate /\ then_hash(h, cleaned_request, hash_email, <<>>).exc = "none"
    THEN validate_prepared(
             then_hash(h, cleaned_request, hash_email, <<>>),
             ValidationError(validate_transaction(
                 then_hash(h, cleaned_request, hash_email, <<>>).h, cleaned_request)))
    ELSE then_hash(h, cleaned_request, hash_email, <<>>)

\* prepare_transaction after the copy (lines 291-304): validate, hash the
\* email, clean the credit card.
finish_transaction(h, cleaned_request, validate, hash_email) ==
    IF validate
    THEN after_validation(h, cleaned_request, hash_email,
                          ValidationError(validate_transaction(h, cleaned_request)),
                          <<View(h, cleaned_request)>>)
    ELSE then_hash(h, cleaned_request, hash_email, <<>>)

with_copy(c, validate, hash_email) == finish_transaction(c.h, c.v, validate, hash_email)

\* prepare_transaction(request, validate, hash_email)
prepare_transaction(h, req, validate, hash_email) ==
    with_copy(copy_and_clean(h, req), validate, hash_email)

report_checked(c, error, seen) ==
    IF error # "none" THEN Prepared(c.h, error, None, seen, 0)
    ELSE Prepared(c.h, "none", c.v, seen, 0)

finish_report(c, validate) ==
    IF validate
    THEN report_checked(c, ValidationError(validate_report(c.h, c.v)), <<View(c.h, c.v)>>)
    ELSE report_checked(c, "none", <<>>)

\* prepare_report(request, validate)
prepare_report(h, req, validate) == finish_report(copy_and_clean(h, req), validate)

---------------------------------------------------------------------------
(* webservice.py: the handling of a response                               *)

\* A response body: raw is "empty" (no text), "text" (text that is no
\* JSON) or "json"; kind is what the JSON decodes to; an object has keys
\* and, under "code", a code.
EmptyBody == [raw |-> "empty", kind |-> "none", keys |-> {}, code |-> ""]

TextBody == [raw |-> "text", kind |-> "none", keys |-> {}, code |-> ""]

JsonObject(keys, code) == [raw |-> "json", kind |-> "object", keys |-> keys, code |-> code]

JsonScalar(kind) == [raw |-> "json", kind |-> kind, keys |-> {}, code |-> ""]

\* A JSON array of strings; keys are its elements.
JsonList(items) == [raw |-> "json", kind |-> "list", keys |-> items, code |-> ""]

\* USER_ID_REQUIRED left out of the authentication codes.
exception_without_user_id(code) ==
    IF code \in {"ACCOUNT_ID_REQUIRED", "AUTHORIZATION_INVALID", "LICENSE_KEY_REQUIRED"}
    THEN "AuthenticationError"
    ELSE IF code = "INSUFFICIENT_FUNDS" THEN "InsufficientFundsError"
    ELSE IF code = "PERMISSION_REQUIRED" THEN "PermissionRequiredError"
    ELSE "InvalidRequestError"

\* BaseClient._exception_for_web_service_error
exception_for_web_service_error(code) ==
    IF code \in {"ACCOUNT_ID_REQUIRED", "AUTHORIZATION_INVALID",
                 "LICENSE_KEY_REQUIRED", "USER_ID_REQUIRED"}
    THEN "AuthenticationError"
    ELSE IF code = "INSUFFICIENT_FUNDS" THEN "InsufficientFundsError"
    ELSE IF code = "PERMISSION_REQUIRED" THEN "PermissionRequiredError"
    ELSE "InvalidRequestError"

\* BaseClient._exception_for_4xx_status: the class of the exception it
\* returns, or of the one it raises itself: "code" in a number, a bool or
\* null is a TypeError, and .get of an array or a string that holds both
\* "code" and "error" is an AttributeError.
exception_for_4xx_status(content_type, body) ==
    IF body.raw = "empty" THEN "HTTPError"
    ELSE IF content_type \notin {"application/json", "application/vnd.maxmind.com-error+json"}
    THEN "HTTPError"
    ELSE IF body.raw # "json" THEN "HTTPError"
    ELSE IF body.kind \in {"number", "null", "bool"} THEN "TypeError"
    ELSE IF body.kind # "object"
    THEN (IF {"code", "error"} \subseteq body.keys THEN "AttributeError" ELSE "HTTPError")
    ELSE IF {"code", "error"} \subseteq body.keys
    THEN exception_for_web_service_error(body.code)
    ELSE "HTTPError"

\* BaseClient._exception_for_error
exception_for_error(status, content_type, body) ==
    IF 400 <= status /\ status < 500
    THEN exception_for_4xx_status(content_type, body)
    ELSE "HTTPError"

\* The keyword-only parameters without a default of Score, Insights and
\* Factors (models.py 1359-1378, 1525-1542, 1626-1637).
RequiredKeys == {"funds_remaining", "id", "queries_remaining", "risk_score"}

\* BaseClient._handle_success: "returned", or the class of the exception.
\* model_class(**decoded_body) is a TypeError on a value that is no
\* mapping and on an object without a required keyword.
handle_success(body) ==
    IF body.raw # "json" THEN "MinFraudError"
    ELSE IF body.kind # "object" THEN "TypeError"
    ELSE IF ~(RequiredKeys \subseteq body.keys) THEN "TypeError"
    ELSE "returned"

\* One status of success for every call.
expected_200(op) == 200

\* The status a call takes for success: 204 for report (lines 412, 670),
\* 200 for score, insights and factors (lines 430, 688).
expected_status(op) == IF op = "report" THEN 204 ELSE 200

\* The end of report and _response_for, once the response is there.
outcome_of(op, resp) ==
    IF resp.status # expected_status(op)
    THEN exception_for_error(resp.status, resp.content_type, resp.body)
    ELSE IF op = "report" THEN "returned"
    ELSE handle_success(resp.body)

\* The URIs of BaseClient.__init__ (lines 71-75).
uri_of(op) ==
    IF op = "report" THEN "/minfraud/v2.0/transactions/report"
    ELSE "/minfraud/v2.0/" \o op

\* A POST sent again after the first.
requests_resent(h, op, data) ==
    <<[uri |-> uri_of(op), json |-> View(h, data)],
      [uri |-> uri_of(op), json |-> View(h, data)]>>

\* What Client._do_request and AsyncClient._do_request send for one call:
\* one POST of the prepared request, as JSON.
requests_sent(h, op, data) == <<[uri |-> uri_of(op), json |-> View(h, data)]>>

---------------------------------------------------------------------------
(* The calls and the requests the model draws from.                        *)

\* The longest address text enumerated over AddressAlphabet.
MaxAddrLen == 3

\* The longest list, set or tuple enumerated over Leaves.
MaxLen == 2

\* Tree constructors: a dict from its entries, a list, set or tuple from
\* its elements.
D(m) == [k |-> "dict", m |-> m, s |-> <<>>]

L(kind, s) == [k |-> kind, m |-> <<>>, s |-> s]

SeqsUpTo(alphabet, n) == UNION {[1..k -> alphabet] : k \in 0..n}

AddressAlphabet == {"a", "@", "."}

\* Addresses of the tests of maybe_hash_email and _clean_email, and a
\* domain with an empty label and one with a label of 64 characters.
FixedAddresses ==
    {<<"f","a","s","f","s">>,
     <<"7","5","7","4","0","2","e","6","8","9","1","5","2","e","0","8","8","9","a","b","9","c","f","2","c","5","9","8","4","c","6","5">>,
     <<"7","5","7","4","0","2","E","6","8","9","1","5","2","E","0","8","8","9","A","B","9","C","F","2","C","5","9","8","4","C","6","5">>,
     <<"t","e","s","t","@","m","a","x","m","i","n","d",".","c","o","m">>,
     <<" "," "," ","t","e","s","t","@"," "," "," ","m","a","x","m","i","n","d",".","c","o","m"," "," "," ">>,
     <<"T","e","s","t","+","i","g","n","o","r","e","d","@","M","a","x","M","i","n","d",".","c","o","m">>,
     <<"t","e","s","t","+","@","m","a","x","m","i","n","d",".","c","o","m">>,
     <<"b","a","s","e","n","a","m","e","-","k","e","y","w","o","r","d","@","y","a","h","o","o",".","c","o","m">>,
     <<"T","e","s","t","+","f","o","o","@","y","a","h","o","o",".","c","o","m">>,
     <<"+","@","M","a","x","M","i","n","d",".","c","o","m">>,
     <<"t","e","s","t","@">>,
     <<"f","o","o","@","a",".",".","c","o","m">>,
     <<"f","o","o",".","b","a","r","@","g","m","a","i","l",".","c","o","m">>,
     <<"f","o","o","@","g","a","m","i","l",".","c","o","m">>,
     <<"f","o","o","@","1","0","0","0","0","g","m","a","i","l",".","c","o","m">>,
     <<"f","o","o","@","e","x","a","m","p","l","e",".","c","o","m",".","c","o","m">>,
     <<"f","o","o","@","g","o","o","g","l","e","m","a","i","l",".","c","o","m">>,
     <<"a","l","i","a","s","@","u","s","e","r",".","f","a","s","t","m","a","i","l",".","c","o","m">>,
     <<"a","@","b","@","c",".","c","o","m">>,
     <<"t","e","s","t","-","f","o","o","@","g","m","a","i","l",".","c","o","m">>,
     <<"a", "@">> \o [i \in 1..(IdnaMaxLabel + 1) |-> "b"] \o DotCom}

AddressTexts == FixedAddresses \cup SeqsUpTo(AddressAlphabet, MaxAddrLen)

GoogleCom == <<"g","o","o","g","l","e",".","c","o","m">>

One == Num(<<"1">>)

EmailRequests ==
    {D("email" :> D("address" :> Str(a))) : a \in AddressTexts}
    \cup {D("email" :> D("address" :> Str(a) @@ "domain" :> Str(GoogleCom))) : a \in FixedAddresses}
    \cup {D(<<>>),
          D("email" :> D(<<>>)),
          D("email" :> D("domain" :> Str(GoogleCom))),
          D("email" :> D("address" :> None)),
          D("email" :> D("address" :> One)),
          D("email" :> D("address" :> L("list", <<Str(<<"a">>)>>))),
          D("email" :> Str(<<"a">>)),
          D("email" :> L("list", <<>>)),
          D("device" :> D("ip_address" :> Str(<<"1",".","1",".","1",".","1">>)))}

Leaves == {None, Str(<<"x">>)}

\* The values of a section: scalars, dicts of scalars, and lists, sets
\* (without repeated elements) and tuples of scalars.
SectionValues ==
    Leaves
    \cup {D(m) : m \in UNION {[ks -> Leaves] : ks \in SUBSET {"shop_id", "transaction_id"}}}
    \cup {L(kind, e) : kind \in {"list", "tuple"}, e \in SeqsUpTo(Leaves, MaxLen)}
    \cup {L("set", e) : e \in {q \in SeqsUpTo(Leaves, MaxLen) :
                                  \A i, j \in DOMAIN q : q[i] = q[j] => i = j}}

Ip152 == <<"1","5","2",".","2","1","6",".","7",".","1","1","0">>

\* The request of test_200_on_request_with_nones, and deeper nestings.
NestedRequests ==
    {D("device" :> D("ip_address" :> Str(Ip152) @@ "accept_language" :> None)
       @@ "event" :> D("shop_id" :> None)
       @@ "shopping_cart" :> L("list", <<D("category" :> None @@ "quantity" :> Num(<<"2">>)), None>>)),
     D("shopping_cart" :> L("tuple", <<L("list", <<None>>), D("category" :> None)>>)),
     D("custom_inputs" :> D("float_input" :> None @@ "InvalidKey" :> L("set", <<None>>)))}

PruneRequests == {D("event" :> x) : x \in SectionValues} \cup NestedRequests

Digits1234 == Str(<<"1","2","3","4">>)

CreditCardRequests ==
    {D("credit_card" :> D("last_4_digits" :> Digits1234)),
     D("credit_card" :> D("last_digits" :> Digits1234)),
     D("credit_card" :> D("last_4_digits" :> Digits1234 @@ "last_digits" :> Str(<<"5","6">>))),
     D("credit_card" :> D("last_4_digits" :> Str(<<>>))),
     D("credit_card" :> D("last_4_digits" :> None)),
     D("credit_card" :> D(<<>>)),
     D("credit_card" :> D("last_4_digits" :> Digits1234) @@ "last_4_digits" :> Str(<<"9","9">>)),
     D("last_4_digits" :> Digits1234),
     D("credit_card" :> D("last_4_digits" :> Digits1234)
       @@ "email" :> D("address" :> Str(<<"a","@","b",".","c","o">>)))}

Chargeback == Str(<<"c","h","a","r","g","e","b","a","c","k">>)

ReportRequests ==
    {D("tag" :> Chargeback),
     D("tag" :> Chargeback @@ "ip_address" :> Str(<<"1",".","1",".","1",".","1">>)),
     D("tag" :> Chargeback @@ "maxmind_id" :> Str(<<"1","2","3","4","5","6","7","8">>)),
     D("tag" :> Chargeback @@ "transaction_id" :> Str(<<"a","b","c","1","2","3">>) @@ "notes" :> None),
     D("tag" :> Chargeback @@ "transaction_id" :> None),
     D("ip_address" :> Str(<<"1",".","1",".","1",".","1">>)),
     D("tag" :> Str(<<"x">>) @@ "ip_address" :> Str(<<"1",".","2",".","3",".">>))}

Requests == EmailRequests \cup PruneRequests \cup CreditCardRequests \cup ReportRequests

TransactionOps == {"score", "insights", "factors"}

\* The calls of the two clients; report has no hash_email parameter.
ClientCalls ==
    {c \in [client : {"Client", "AsyncClient"},
            op : TransactionOps \cup {"report"},
            validate : BOOLEAN,
            hash_email : BOOLEAN] :
        c.op = "report" => ~c.hash_email}

\* maybe_hash_email(transaction) called on the request itself, as the
\* tests of request.py call it.
DirectCall ==
    [client |-> "none", op |-> "maybe_hash_email", validate |-> FALSE, hash_email |-> TRUE]

Calls == ClientCalls \cup {DirectCall}

\* The responses of the server the model draws from.
Responses ==
    {[status |-> 200, content_type |-> "application/json", body |-> JsonObject(RequiredKeys, "")],
     [status |-> 200, content_type |-> "application/json", body |-> JsonObject({"risk_score"}, "")],
     [status |-> 200, content_type |-> "application/json", body |-> TextBody],
     [status |-> 204, content_type |-> "none", body |-> EmptyBody],
     [status |-> 302, content_type |-> "text/plain", body |-> TextBody],
     [status |-> 400, content_type |-> "application/json",
      body |-> JsonObject({"code", "error"}, "IP_ADDRESS_INVALID")],
     [status |-> 401, content_type |-> "application/json",
      body |-> JsonObject({"code", "error"}, "AUTHORIZATION_INVALID")],
     [status |-> 402, content_type |-> "application/json",
      body |-> JsonObject({"code", "error"}, "INSUFFICIENT_FUNDS")],
     [status |-> 403, content_type |-> "application/json",
      body |-> JsonObject({"code", "error"}, "PERMISSION_REQUIRED")],
     [status |-> 400, content_type |-> "text/plain", body |-> TextBody],
     [status |-> 400, content_type |-> "application/json", body |-> JsonScalar("number")],
     [status |-> 200, content_type |-> "application/json", body |-> JsonScalar("number")],
     [status |-> 500, content_type |-> "text/plain", body |-> TextBody],
     [status |-> 503, content_type |-> "none", body |-> EmptyBody]}

NoResponse == [status |-> 0, content_type |-> "none", body |-> EmptyBody]

---------------------------------------------------------------------------
(* The state machine: one call of score, insights, factors or report.      *)

\* An AsyncClient just constructed (AsyncClient.__init__ sets no session),
\* with no coroutine.  session is "unset" while the client has no
\* _existing_session attribute, then "open", then "closed"; created counts
\* the ClientSession objects constructed.  Coroutine i is a call of
\* kind[i] with the request arg[i], stands at at[i], took the session
\* numbered used[i] (0 before it took one) and ended with result[i].
NoTasks ==
    [kind |-> <<>>, arg |-> <<>>, at |-> <<>>, used |-> <<>>, result |-> <<>>,
     session |-> "unset", created |-> 0]

Init ==
    /\ input \in Requests
    /\ call \in Calls
    /\ heap = Store(<<>>, input).h
    /\ request = Store(<<>>, input).v
    /\ pc = "start"
    /\ prepared = None
    /\ validated = <<>>
    /\ posts = <<>>
    /\ response = NoResponse
    /\ outcome = "none"
    /\ warned = 0
    /\ message = {}
    /\ aio = NoTasks

\* The errors of the MultipleInvalid that the validator of the operation
\* raised on the structure it was given: none when it was not called or
\* raised nothing.
errors_on(op, s) ==
    IF op = "report" THEN validate_report(s.h, s.v).errors
    ELSE validate_transaction(s.h, s.v).errors

invalid_errors(op, seen) ==
    IF seen = <<>> THEN {} ELSE errors_on(op, Store(<<>>, seen[1]))

\* str(ex) of a MultipleInvalid is str(ex.errors[0]): the description of
\* its first error alone.  The first error is that of the first invalid
\* key in the order of the dict, which the heap does not keep: any one.
str_MultipleInvalid(errors) == {{e} : e \in errors}

\* msg of lines 279 and 295, "Invalid ... data: {ex}", as the violations
\* it describes.
invalid_data_msg(exc, errors) ==
    IF exc = "InvalidRequestError" THEN str_MultipleInvalid(errors) ELSE {{}}

\* The state after the prepare function gave r.
AfterPrepare(r) ==
    /\ message' \in invalid_data_msg(r.exc, invalid_errors(call.op, r.validated))
    /\ heap' = r.h
    /\ validated' = r.validated
    /\ warned' = warned + r.warned
    /\ prepared' = r.v
    /\ pc' = IF r.exc = "none" THEN "prepared" ELSE "done"
    /\ outcome' = IF r.exc = "none" THEN outcome ELSE r.exc

\* prepare_report (lines 405, 663) or prepare_transaction (lines 424,
\* 682): the first statement of the call.
Prepare ==
    /\ pc = "start"
    /\ call \in ClientCalls
    /\ AfterPrepare(IF call.op = "report"
                    THEN prepare_report(heap, request, call.validate)
                    ELSE prepare_transaction(heap, request, call.validate, call.hash_email))
    /\ UNCHANGED <<input, request, call, posts, response, aio>>

\* The state after maybe_hash_email gave r: it returns None and has
\* changed its argument in place.
AfterHash(r) ==
    /\ heap' = r.h
    /\ outcome' = IF r.exc = "none" THEN "returned" ELSE r.exc
    /\ pc' = "done"

\* maybe_hash_email(request), called directly.
MaybeHashEmail ==
    /\ pc = "start"
    /\ call = DirectCall
    /\ AfterHash(maybe_hash_email(heap, request))
    /\ UNCHANGED <<input, request, call, prepared, validated, posts, response, warned,
                   message, aio>>

\* _do_request (lines 434-440, 692-698): the POST is sent.
DoRequest ==
    /\ pc = "prepared"
    /\ posts' = posts \o requests_sent(heap, call.op, prepared)
    /\ pc' = "sent"
    /\ UNCHANGED <<heap, input, request, call, prepared, validated, response,
                   outcome, warned, message, aio>>

\* The call ends on the response resp (lines 408-413, 426-432, 667-671,
\* 685-690).
Answer(resp) ==
    /\ response' = resp
    /\ outcome' = outcome_of(call.op, resp)
    /\ pc' = "done"
    /\ UNCHANGED <<heap, input, request, call, prepared, validated, posts, warned,
                   message, aio>>

\* The response arrives and the call ends.
HandleResponse ==
    /\ pc = "sent"
    /\ \E resp \in Responses : Answer(resp)

Next == Prepare \/ MaybeHashEmail \/ DoRequest \/ HandleResponse

Spec == Init /\ [][Next]_vars

---------------------------------------------------------------------------
(* maybe_hash_email over local parts and domains: every local part over    *)
(* LocalAlphabet up to MaxLocalLen with each of CanonDomains.              *)

\* The longest local part enumerated over LocalAlphabet.
MaxLocalLen == 3

LocalAlphabet == {"a", "+", "-", "."}

\* Yahoo, gmail (direct, equivalent, typo, numeric prefix, TLD typo,
\* repeated .com), a plain domain, Fastmail, an empty domain and a domain
\* with an empty label.
CanonDomains ==
    {<<"y","a","h","o","o",".","c","o","m">>,
     <<"y","m","a","i","l",".","c","o","m">>,
     <<"y","a","h","o","o",".","c","o",".","u","k">>,
     <<"Y","A","H","O","O",".","c","o","m">>,
     <<"g","m","a","i","l",".","c","o","m">>,
     <<"g","o","o","g","l","e","m","a","i","l",".","c","o","m">>,
     <<"g","a","m","i","l",".","c","o","m">>,
     <<"1","0","0","0","0","g","m","a","i","l",".","c","o","m">>,
     <<"g","m","a","i","l",".","c","o","m","m">>,
     <<"g","m","a","i","l",".","c","o","m",".","c","o","m">>,
     <<"m","a","x","m","i","n","d",".","c","o","m">>,
     <<"u","s","e","r",".","f","a","s","t","m","a","i","l",".","c","o","m">>,
     <<"f","a","s","t","m","a","i","l",".","c","o","m">>,
     <<"a",".","u","s","e","r",".","f","a","s","t","m","a","i","l",".","c","o","m">>,
     <<"u","s","e","r",".","f","a","s","t","m","a","i","l",".","c","o",".","u","k">>,
     <<"f","a","s","t","m","a","i","l",".","c","o",".","u","k">>,
     <<>>,
     <<"a",".",".","c","o","m">>}

CanonRequests ==
    {D("email" :> D("address" :> Str(l \o <<"@">> \o d))) :
        l \in SeqsUpTo(LocalAlphabet, MaxLocalLen), d \in CanonDomains}

HashInit ==
    /\ input \in CanonRequests
    /\ call = DirectCall
    /\ heap = Store(<<>>, input).h
    /\ request = Store(<<>>, input).v
    /\ pc = "start"
    /\ prepared = None
    /\ validated = <<>>
    /\ posts = <<>>
    /\ response = NoResponse
    /\ outcome = "none"
    /\ warned = 0
    /\ message = {}
    /\ aio = NoTasks

HashNext == MaybeHashEmail

HashSpec == HashInit /\ [][HashNext]_vars

---------------------------------------------------------------------------
(* The transaction calls with validation, over the values of single        *)
(* fields: issuer_id_number, token and the phone country codes.            *)

Rep(c, n) == [i \in 1..n |-> c]

\* The values of test_issuer_id_number, and digits of other lengths, with
\* a space and with a final newline.
IinValues ==
    {Str(Rep("1", n)) : n \in 5..9}
    \cup {Str(<<"1","2","3","4","5","6">>), Str(<<"5","3","2","3","1","3">>), Str(<<"8","8","8","8","8","8","8","8">>), Str(<<"1","2","3","4","5","a">>),
          Num(<<"1","2","3","4","5","6">>), Str(<<>>),
          Str(Rep("1", 6) \o <<"\n">>), Str(Rep("1", 8) \o <<"\n">>),
          Str(Rep("1", 5) \o <<"\n">>), Str(<<"1","2","3"," ","5","6">>)}

\* The lengths of the all-digit and all-letter tokens.
TokenLengths == {1, 6, 19, 20, 255, 256}

\* The values of test_token, tokens of the lengths above, and tokens with
\* a space and with a final newline.
TokenValues ==
    {Str(Rep("1", n)) : n \in TokenLengths}
    \cup {Str(Rep("x", n)) : n \in TokenLengths}
    \cup {Str(<<"1","2","3","4","5","6","a","b","c","1","2","4","5">>), Str(<<"!">>), Str(<<" ">>), Str(<<>>),
          Str(<<"a", " ", "b">>), Str(<<"a", "\n">>), Str(<<"1", "\n">>),
          Str(Rep("1", 19) \o <<"a">>), Str(Rep("1", 254) \o <<"~">>)}

\* The values of test_phone_country_code and the ends of the range.
PhoneCodeValues ==
    {Num(<<"0">>), Num(<<"1">>), Num(<<"2","3","4","1">>), Num(<<"9","9","9","9">>), Num(<<"1","0","0","0","0">>),
     Str(<<"0">>), Str(<<"0","0","0","0">>), Str(<<>>), Str(<<"1","2","3","4","5">>), Str(<<"1">>),
     Str(<<"2","3","4","1">>), Str(<<"9","9","9","9">>), Str(<<"U">>), Str(<<"1", "\n">>), Str(<<"-", "1">>),
     True, False}

PhoneCodeFields ==
    {<<"billing", "phone_country_code">>, <<"shipping", "phone_country_code">>,
     <<"credit_card", "bank_phone_country_code">>}

FieldRequests ==
    {D("credit_card" :> D("issuer_id_number" :> v)) : v \in IinValues}
    \cup {D("credit_card" :> D("token" :> v)) : v \in TokenValues}
    \cup {D(f[1] :> D(f[2] :> v)) : f \in PhoneCodeFields, v \in PhoneCodeValues}

FieldInit ==
    /\ input \in FieldRequests
    /\ call \in {c \in ClientCalls : c.op # "report" /\ c.validate}
    /\ heap = Store(<<>>, input).h
    /\ request = Store(<<>>, input).v
    /\ pc = "start"
    /\ prepared = None
    /\ validated = <<>>
    /\ posts = <<>>
    /\ response = NoResponse
    /\ outcome = "none"
    /\ warned = 0
    /\ message = {}
    /\ aio = NoTasks

FieldNext == Prepare \/ DoRequest \/ HandleResponse

FieldSpec == FieldInit /\ [][FieldNext]_vars

---------------------------------------------------------------------------
(* _clean_domain applied to a domain and then to its own result.           *)

Com == <<"c","o","m">>

\* The final labels tried: the keys of _TYPO_TLDS, and com.
FinalLabels == DOMAIN TYPO_TLDS \cup {Com}

\* Digits followed by gmail or gmai, before the final label.
NumericGmails ==
    {n \o g : n \in {<<"1">>, <<"3","5">>, <<"1","2","3">>},
              g \in {<<"g","m","a","i","l">>, <<"g","m","a","i">>}}

\* The keys of _TYPO_DOMAINS and _EQUIVALENT_DOMAINS whose final label
\* is com.
ComKeys ==
    {d \in DOMAIN TYPO_DOMAINS \cup DOMAIN EQUIVALENT_DOMAINS :
        Len(d) > 4 /\ SubSeq(d, Len(d) - 3, Len(d)) = DotCom}

\* d with its final label com replaced by t.
WithFinalLabel(d, t) == SubSeq(d, 1, Len(d) - 3) \o t

OtherDomains ==
    {<<"p","m",".","m","e">>,
     <<"p","r","o","t","o","n",".","m","e">>,
     <<"y","a","n","d","e","x",".","b","y">>,
     <<"y","a",".","r","u">>,
     <<"e","x","a","m","p","l","e",".","c","o","m",".","c","o","n">>,
     <<"e","x","a","m","p","l","e",".","c","o","m",".","c","o","m">>,
     <<"e","x","a","m","p","l","e",".","c","o","m",".","c","o","m",".","c","o","m">>,
     <<"e","x","a","m","p","l","e",".","c","o","m","f","o","o">>,
     <<"e","x","a","m","p","l","e",".","c","a","m">>,
     <<"e","x","a","m","p","l","e",".","c","o","m","c","o","m">>,
     <<"e","x","a","m","p","l","e",".","c","o","m",".">>,
     <<"e","x","a","m","p","l","e",".","c","o","m",".",".",".">>,
     <<"a",".",".","c","o","m">>,
     <<" ","e","x","a","m","p","l","e",".","c","o","m"," ">>,
     <<"e","x","a","m","p","l","e",".","c","o","m"," ",".">>,
     <<"u","s","e","r",".","f","a","s","t","m","a","i","l",".","c","o","m">>,
     <<"g","m","a","i","l",".","c","o","m",".","c","o","m",".","c","o","n">>,
     <<"g","m","a","i",".","c","o","m",".","c","o","n">>,
     <<"1","2","3","g","m","a","i","l",".","c","o","m",".","c","o","n">>,
     <<"e","x","a","m","p","l","e",".","c","o","n">>,
     <<>>}

DomainTexts ==
    {g \o <<".">> \o t : g \in NumericGmails, t \in FinalLabels}
    \cup {WithFinalLabel(d, t) : d \in ComKeys, t \in FinalLabels}
    \cup OtherDomains

DomainCall ==
    [client |-> "none", op |-> "_clean_domain", validate |-> FALSE, hash_email |-> FALSE]

DomainInit ==
    /\ input \in {Str(d) : d \in DomainTexts}
    /\ call = DomainCall
    /\ heap = <<>>
    /\ request = input
    /\ pc = "start"
    /\ prepared = None
    /\ validated = <<>>
    /\ posts = <<>>
    /\ response = NoResponse
    /\ outcome = "none"
    /\ warned = 0
    /\ message = {}
    /\ aio = NoTasks

\* The state after _clean_domain gave r: a str, or the UnicodeError of
\* the idna codec.
Cleaned_domain(r, at) ==
    /\ prepared' = IF r.exc = "none" THEN Str(r.v) ELSE None
    /\ outcome' = IF r.exc = "none" THEN outcome ELSE r.exc
    /\ pc' = IF r.exc = "none" THEN at ELSE "done"
    /\ UNCHANGED <<heap, input, request, call, validated, posts, response, warned,
                   message, aio>>

\* _clean_domain(domain)
CleanDomain ==
    /\ pc = "start"
    /\ call = DomainCall
    /\ Cleaned_domain(clean_domain(request.v), "cleaned")

\* _clean_domain of the domain _clean_domain returned
CleanDomainAgain ==
    /\ pc = "cleaned"
    /\ Cleaned_domain(clean_domain(prepared.v), "cleaned again")

DomainNext == CleanDomain \/ CleanDomainAgain

DomainSpec == DomainInit /\ [][DomainNext]_vars

---------------------------------------------------------------------------
(* _copy_and_clean applied to a request and then to its own result.        *)

PruneCall ==
    [client |-> "none", op |-> "_copy_and_clean", validate |-> FALSE, hash_email |-> FALSE]

PruneInit ==
    /\ input \in Requests
    /\ call = PruneCall
    /\ heap = Store(<<>>, input).h
    /\ request = Store(<<>>, input).v
    /\ pc = "start"
    /\ prepared = None
    /\ validated = <<>>
    /\ posts = <<>>
    /\ response = NoResponse
    /\ outcome = "none"
    /\ warned = 0
    /\ message = {}
    /\ aio = NoTasks

\* The state after _copy_and_clean gave r.
Pruned(r, at) ==
    /\ heap' = r.h
    /\ prepared' = r.v
    /\ pc' = at
    /\ UNCHANGED <<input, request, call, validated, posts, response, outcome,
                   warned, message, aio>>

\* _copy_and_clean(request)
Prune ==
    /\ pc = "start"
    /\ call = PruneCall
    /\ Pruned(copy_and_clean(heap, request), "pruned")

\* _copy_and_clean of the structure _copy_and_clean returned
PruneAgain ==
    /\ pc = "pruned"
    /\ Pruned(copy_and_clean(heap, prepared), "pruned again")

PruneNext == Prune \/ PruneAgain

PruneSpec == PruneInit /\ [][PruneNext]_vars

---------------------------------------------------------------------------
(* The calls on a valid request, over the responses of every status,       *)
(* content type and body.                                                  *)

Statuses == {200, 201, 204, 302, 400, 401, 402, 403, 500, 503}

\* "none" is a response without a Content-Type header.
JsonTypes == {"application/json", "application/vnd.maxmind.com-error+json"}

ContentTypes == JsonTypes \cup {"none", "text/plain"}

\* The codes of _exception_for_web_service_error and two others.
Codes ==
    {"ACCOUNT_ID_REQUIRED", "AUTHORIZATION_INVALID", "LICENSE_KEY_REQUIRED",
     "USER_ID_REQUIRED", "INSUFFICIENT_FUNDS", "PERMISSION_REQUIRED",
     "IP_ADDRESS_INVALID", "OTHER_CODE"}

Bodies ==
    {EmptyBody, TextBody,
     JsonObject(RequiredKeys, ""), JsonObject({"risk_score"}, ""),
     JsonObject({"not"}, ""), JsonObject({"code"}, "IP_ADDRESS_INVALID"),
     JsonList({"code", "error"}), JsonList({})}
    \cup {JsonObject({"code", "error"}, c) : c \in Codes}
    \cup {JsonScalar(k) : k \in {"number", "null", "bool", "string"}}

AnyResponses == [status : Statuses, content_type : ContentTypes, body : Bodies]

ValidTransaction ==
    D("device" :> D("ip_address" :> Str(<<"1",".","1",".","1",".","1">>)))

ValidReport ==
    D("tag" :> Chargeback @@ "ip_address" :> Str(<<"1",".","1",".","1",".","1">>))

ResponseInit ==
    /\ call \in ClientCalls
    /\ input = IF call.op = "report" THEN ValidReport ELSE ValidTransaction
    /\ heap = Store(<<>>, input).h
    /\ request = Store(<<>>, input).v
    /\ pc = "start"
    /\ prepared = None
    /\ validated = <<>>
    /\ posts = <<>>
    /\ response = NoResponse
    /\ outcome = "none"
    /\ warned = 0
    /\ message = {}
    /\ aio = NoTasks

\* The response arrives and the call ends, whatever the response.
HandleAnyResponse ==
    /\ pc = "sent"
    /\ \E resp \in AnyResponses : Answer(resp)

ResponseNext == Prepare \/ DoRequest \/ HandleAnyResponse

ResponseSpec == ResponseInit /\ [][ResponseNext]_vars

---------------------------------------------------------------------------
(* The report calls with validation, over reports that have each field     *)
(* absent, valid or invalid.                                               *)

\* A value each report field accepts (those of test_report_valid_identifier
\* for the identifiers) and one it rejects.
GoodReportValue ==
    [tag |-> Chargeback,
     ip_address |-> Str(<<"1",".","1",".","1",".","1">>),
     maxmind_id |-> Str(<<"1","2","3","4","5","6","7","8">>),
     minfraud_id |-> Str(<<"5","8","f","a","3","8","d","8","-","4","b","8","7","-","4","5","8","b","-","a","2","2","b","-","f","0","0","e","d","a","1","a","a","2","0","d">>),
     transaction_id |-> Str(<<"a","b","c","1","2","3">>),
     notes |-> Str(<<"n">>)]

BadReportValue ==
    [tag |-> Str(<<"x">>),
     ip_address |-> Str(<<"1",".","2",".","3",".">>),
     maxmind_id |-> Str(<<"1","2","3","4","5","6","7">>),
     minfraud_id |-> Str(<<"0","0","0","0","0","0","0","0","-","0","0","0","0","-","0","0","0","0","-","0","0","0","0","-","0","0","0","0","0","0","0","0","0","0","0","0">>),
     transaction_id |-> Str(<<>>),
     notes |-> One]

ReportFields == DOMAIN GoodReportValue

\* Every report with a subset of the fields, each good, bad or, for
\* notes, None.
ReportCases ==
    {D([k \in ks |-> IF k \in bad THEN BadReportValue[k]
                     ELSE IF k = "notes" /\ none THEN None
                     ELSE GoodReportValue[k]]) :
        ks \in SUBSET ReportFields, bad \in SUBSET ReportFields, none \in BOOLEAN}

ReportInit ==
    /\ input \in ReportCases
    /\ call \in {c \in ClientCalls : c.op = "report" /\ c.validate}
    /\ heap = Store(<<>>, input).h
    /\ request = Store(<<>>, input).v
    /\ pc = "start"
    /\ prepared = None
    /\ validated = <<>>
    /\ posts = <<>>
    /\ response = NoResponse
    /\ outcome = "none"
    /\ warned = 0
    /\ message = {}
    /\ aio = NoTasks

ReportNext == Prepare \/ DoRequest \/ HandleResponse

ReportSpec == ReportInit /\ [][ReportNext]_vars

---------------------------------------------------------------------------
(* Properties of the prepared request.                                     *)

\* prepare_transaction or prepare_report has returned.
Returned == prepared # None

\* The structure prepare_transaction or prepare_report returned.
Result == View(heap, prepared)

\* A tree holds None: as a dict value or as an element, at any depth.
RECURSIVE HasNone(_)
HasNone(t) ==
    IF ~IsNode(t) THEN t = None
    ELSE \/ \E k \in DOMAIN t.m : HasNone(t.m[k])
         \/ \E i \in DOMAIN t.s : HasNone(t.s[i])

IsEmptyNode(t) ==
    IsNode(t) /\ IF t.k = "dict" THEN DOMAIN t.m = {} ELSE t.s = <<>>

\* A tree holds an empty dict or list below its root.
RECURSIVE HasEmptyInside(_)
HasEmptyInside(t) ==
    /\ IsNode(t)
    /\ \/ \E k \in DOMAIN t.m : IsEmptyNode(t.m[k]) \/ HasEmptyInside(t.m[k])
       \/ \E i \in DOMAIN t.s : IsEmptyNode(t.s[i]) \/ HasEmptyInside(t.s[i])

\* The number of dicts, lists, sets and tuples of a tree.
RECURSIVE Containers(_), ContainersIn(_, _)
Containers(t) ==
    IF ~IsNode(t) THEN 0
    ELSE 1 + ContainersIn(t.m, KeySeq(DOMAIN t.m)) + ContainersIn(t.s, KeySeq(DOMAIN t.s))

ContainersIn(f, keys) ==
    IF keys = <<>> THEN 0
    ELSE Containers(f[Head(keys)]) + ContainersIn(f, Tail(keys))

EventShopIdNone == D("event" :> D("shop_id" :> None))

\* C1: the structure prepare_transaction and prepare_report return holds
\* no None: no dict entry has the value None and no list has a None
\* element, at any depth.
C1_NoNoneInPrepared == Returned => ~HasNone(Result)

\* C1 witness: a validated request with a None inside a dict inside its
\* shopping_cart list, and a None element in that list, has been prepared.
C1_Witness ==
    /\ Returned
    /\ call.validate
    /\ "shopping_cart" \in DOMAIN input.m
    /\ HasNone(input.m["shopping_cart"])
    /\ "device" \in DOMAIN input.m

C3_CallerRequestUnchanged == call \in ClientCalls => View(heap, request) = input

\* C3 witness: a request with an email address and credit_card.last_4_digits
\* has been prepared with hash_email, and the prepared address is a digest.
C3_Witness ==
    /\ Returned
    /\ call.hash_email
    /\ {"email", "credit_card"} \subseteq DOMAIN input.m
    /\ "last_4_digits" \in DOMAIN input.m["credit_card"].m
    /\ Result.m["email"].m["address"].t = "md5"
    /\ input.m["email"].m["address"].t = "str"

---------------------------------------------------------------------------
(* The order of the steps, and the requests sent.                          *)

\* A tree without its None entries and elements, every list, set and
\* tuple as a list: the request as the validator should see it when it
\* runs right after the pruning.
RECURSIVE WithoutNones(_)
WithoutNones(t) ==
    IF ~IsNode(t) THEN t
    ELSE IF t.k = "dict"
    THEN D([k \in {x \in DOMAIN t.m : t.m[x] # None} |-> WithoutNones(t.m[k])])
    ELSE LET kept == SelectSeq(t.s, LAMBDA x : x # None)
         IN L("list", [i \in DOMAIN kept |-> WithoutNones(kept[i])])

\* The verdict of the schema on a structure handed to the validator.
VerdictOn(t) ==
    IF call.op = "report"
    THEN validate_report(Store(<<>>, t).h, Store(<<>>, t).v)
    ELSE validate_transaction(Store(<<>>, t).h, Store(<<>>, t).v)

\* The structure did not pass: the schema reported a violation, or a
\* checker raised on a value.
FailsValidation(t) == VerdictOn(t).exc # "none" \/ VerdictOn(t).errors # {}

\* C4 as stated: the structure the validator checked is the structure
\* handed to the transport layer, hashed and cleaned.
C4_ValidatedIsPosted ==
    (validated # <<>> /\ posts # <<>>) => validated[1] = posts[1].json

\* C4, as the code has it: the steps are prune, validate, hash the email,
\* clean the credit card.  With validate the validator runs once, on the
\* pruned request as it is before hashing and credit card clean-up, and
\* what is sent is the structure prepare_* returned after those steps.
C4_ValidatedBeforeHashing ==
    /\ (call \in ClientCalls /\ call.validate /\ pc # "start") =>
           validated = <<WithoutNones(input)>>
    /\ ~call.validate => validated = <<>>
    /\ posts # <<>> => posts[1].json = Result

\* C4 witness: a valid request with a cleartext address was validated,
\* then hashed, then sent: the structure validated is not the one sent.
C4_Witness ==
    /\ posts # <<>>
    /\ validated # <<>>
    /\ call.hash_email
    /\ "email" \in DOMAIN validated[1].m
    /\ "address" \in DOMAIN validated[1].m["email"].m
    /\ validated[1].m["email"].m["address"].t = "str"
    /\ posts[1].json.m["email"].m["address"].t = "md5"

\* C5 as stated: with validate, a pruned request that fails the schema
\* makes the call raise InvalidRequestError, and nothing is POSTed.
C5_InvalidRequestErrorBeforePost ==
    (call.validate /\ validated # <<>> /\ FailsValidation(validated[1])) =>
        outcome = "InvalidRequestError" /\ posts = <<>>

\* C5, the part the code keeps: with validate, a pruned request that does
\* not pass the schema ends the call before any POST, with
\* InvalidRequestError when the schema reported violations and with the
\* checker's own TypeError or AttributeError otherwise.
C5_NoPostAfterValidationFailure ==
    (call.validate /\ validated # <<>> /\ FailsValidation(validated[1])) =>
        /\ pc = "done"
        /\ posts = <<>>
        /\ response = NoResponse
        /\ outcome = ValidationError(VerdictOn(validated[1]))

\* C5 witness: a validated call has ended with InvalidRequestError and
\* without a POST.
C5_Witness ==
    /\ call.validate
    /\ validated # <<>>
    /\ FailsValidation(validated[1])
    /\ outcome = "InvalidRequestError"
    /\ posts = <<>>

\* C6: a call issues at most one POST; a response with a status other
\* than the expected one ends the call with an error after that one POST.
C6_AtMostOnePost ==
    /\ Len(posts) <= 1
    /\ (pc = "done" /\ response # NoResponse) =>
           /\ Len(posts) = 1
           /\ response.status # expected_status(call.op) =>
                  outcome \notin {"none", "returned"}

\* C6 witness: a call has ended on a 503 with HTTPError, after one POST.
C6_Witness ==
    /\ pc = "done"
    /\ response.status = 503
    /\ outcome = "HTTPError"
    /\ Len(posts) = 1

---------------------------------------------------------------------------
(* Email hashing.                                                          *)

\* A request tree has an email dict with an address.
HasAddress(t) ==
    /\ "email" \in DOMAIN t.m
    /\ IsNode(t.m["email"])
    /\ t.m["email"].k = "dict"
    /\ "address" \in DOMAIN t.m["email"].m

AddressOf(t) == t.m["email"].m["address"]

\* A value of a tree is a str.
IsText(x) == ~IsNode(x) /\ x.t = "str"

\* The address is a str with an "@".
HasAt(t) ==
    /\ HasAddress(t)
    /\ IsText(AddressOf(t))
    /\ \E i \in DOMAIN AddressOf(t).v : AddressOf(t).v[i] = "@"

\* No email section, no address, a None address, or a str without "@".
NothingToHash(t) ==
    \/ "email" \notin DOMAIN t.m
    \/ /\ IsNode(t.m["email"])
       /\ t.m["email"].k = "dict"
       /\ "address" \notin DOMAIN t.m["email"].m
    \/ /\ HasAddress(t)
       /\ \/ AddressOf(t) = None
          \/ IsText(AddressOf(t)) /\ ~HasAt(t)

\* maybe_hash_email has returned: called directly, or within a
\* prepare_transaction with hash_email that has returned.
HashReturned ==
    \/ call = DirectCall /\ pc = "done" /\ outcome = "returned"
    \/ call \in ClientCalls /\ call.hash_email /\ Returned

\* The transaction maybe_hash_email worked on, as it is now.
Hashed == IF call = DirectCall THEN View(heap, request) ELSE Result

TestIgnoredMaxMind ==
    <<"T","e","s","t","+","i","g","n","o","r","e","d","@","M","a","x","M","i","n","d",".","c","o","m">>

TestMaxMind == <<"t","e","s","t","@","m","a","x","m","i","n","d",".","c","o","m">>

TestAt == <<"t","e","s","t","@">>

UpperDigest ==
    <<"7","5","7","4","0","2","E","6","8","9","1","5","2","E","0","8",
      "8","9","A","B","9","C","F","2","C","5","9","8","4","C","6","5">>

\* C7: when maybe_hash_email has returned and the address was a str with
\* an "@", the address of the transaction is the MD5 hex digest of the
\* canonical local@domain that _clean_email gives for it, and no str any
\* more; "Test+ignored@MaxMind.com" becomes the digest of
\* "test@maxmind.com".
C7_AddressReplacedByDigest ==
    (HashReturned /\ HasAt(input)) =>
        /\ AddressOf(Hashed) = md5_hexdigest(clean_email(AddressOf(input).v).address)
        /\ AddressOf(Hashed).t = "md5"
        /\ AddressOf(input).v = TestIgnoredMaxMind =>
               AddressOf(Hashed) = md5_hexdigest(TestMaxMind)

\* C7 witness: a score call with hash_email has sent the digest of
\* "test@maxmind.com" for "Test+ignored@MaxMind.com".
C7_Witness ==
    /\ call \in ClientCalls
    /\ call.hash_email
    /\ HasAt(input)
    /\ AddressOf(input).v = TestIgnoredMaxMind
    /\ posts # <<>>
    /\ AddressOf(posts[1].json) = md5_hexdigest(TestMaxMind)

\* C8: when maybe_hash_email has hashed the address, a domain the email
\* already had is as it was; without one, the email gets the canonical
\* domain when that is not empty and no domain key when it is empty
\* ("test@" is hashed and gets no domain).
C8_DomainWrittenOnlyWhenAbsent ==
    (HashReturned /\ HasAt(input)) =>
        /\ "domain" \in DOMAIN input.m["email"].m =>
               /\ "domain" \in DOMAIN Hashed.m["email"].m
               /\ Hashed.m["email"].m["domain"] = input.m["email"].m["domain"]
        /\ ("domain" \notin DOMAIN input.m["email"].m
            /\ clean_email(AddressOf(input).v).domain # <<>>) =>
               /\ "domain" \in DOMAIN Hashed.m["email"].m
               /\ Hashed.m["email"].m["domain"] = Str(clean_email(AddressOf(input).v).domain)
        /\ ("domain" \notin DOMAIN input.m["email"].m
            /\ clean_email(AddressOf(input).v).domain = <<>>) =>
               "domain" \notin DOMAIN Hashed.m["email"].m
        /\ input = D("email" :> D("address" :> Str(TestAt))) =>
               Hashed = D("email" :> D("address" :> md5_hexdigest(TestAt)))

\* C8 witness: maybe_hash_email has hashed "test@maxmind.com" in an email
\* whose domain was "google.com", and the domain is still "google.com".
C8_Witness ==
    /\ HashReturned
    /\ HasAt(input)
    /\ AddressOf(input).v = TestMaxMind
    /\ "domain" \in DOMAIN input.m["email"].m
    /\ AddressOf(Hashed).t = "md5"
    /\ Hashed.m["email"].m["domain"] = Str(GoogleCom)

\* C9: maybe_hash_email returns with the request as it was when there is
\* no email section, no address key, a None address, or a str address
\* without "@" (the empty string, a 32-hex-digit string in either case);
\* within prepare_transaction the email section returned is the pruned
\* section of the request.
C9_UnmodifiedWithoutAt ==
    NothingToHash(input) =>
        /\ (call = DirectCall /\ pc = "done") =>
               outcome = "returned" /\ View(heap, request) = input
        /\ (call \in ClientCalls /\ call.hash_email /\ Returned) =>
               /\ "email" \in DOMAIN input.m <=> "email" \in DOMAIN Result.m
               /\ "email" \in DOMAIN input.m =>
                      Result.m["email"] = WithoutNones(input.m["email"])

\* C9 witness: maybe_hash_email has returned for a request whose address
\* is 32 hexadecimal digits in upper case, and the address is still that.
C9_Witness ==
    /\ call = DirectCall
    /\ pc = "done"
    /\ outcome = "returned"
    /\ HasAddress(input)
    /\ AddressOf(input) = Str(UpperDigest)
    /\ AddressOf(View(heap, request)) = Str(UpperDigest)

\* C10 as stated: with validate=False and hash_email=True,
\* prepare_transaction returns for every str address.
C10_HashingNeverRaises ==
    (/\ call \in ClientCalls
     /\ call.op \in TransactionOps
     /\ ~call.validate
     /\ call.hash_email
     /\ HasAddress(input)
     /\ IsText(AddressOf(input))
     /\ pc # "start") => Returned

\* C10, the part the code keeps: for a str address the only exception
\* of prepare_transaction without validation is the UnicodeError of the
\* idna codec, and then nothing is sent.
C10_OnlyIdnaRaises ==
    (/\ call \in ClientCalls
     /\ call.op \in TransactionOps
     /\ ~call.validate
     /\ call.hash_email
     /\ HasAddress(input)
     /\ IsText(AddressOf(input))
     /\ pc # "start"
     /\ ~Returned) =>
        /\ outcome = "UnicodeError"
        /\ pc = "done"
        /\ posts = <<>>
        /\ clean_domain(SliceFrom(Strip(Lower(AddressOf(input).v)),
                                  RFind(Strip(Lower(AddressOf(input).v)), "@") + 1)).exc
              = "UnicodeError"

\* C10 witness: prepare_transaction has raised UnicodeError on an address
\* of a request that was not validated.
C10_Witness ==
    /\ call \in ClientCalls
    /\ ~call.validate
    /\ call.hash_email
    /\ HasAddress(input)
    /\ IsText(AddressOf(input))
    /\ pc = "done"
    /\ outcome = "UnicodeError"

---------------------------------------------------------------------------
(* The credit card clean-up.                                               *)

\* A request tree has a credit_card dict with a non-empty str under
\* last_4_digits.
HasLast4(t) ==
    /\ "credit_card" \in DOMAIN t.m
    /\ IsNode(t.m["credit_card"])
    /\ t.m["credit_card"].k = "dict"
    /\ "last_4_digits" \in DOMAIN t.m["credit_card"].m
    /\ IsText(t.m["credit_card"].m["last_4_digits"])
    /\ t.m["credit_card"].m["last_4_digits"].v # <<>>

\* C11 as stated: for a credit_card with a non-empty last_4_digits the
\* request returned has credit_card.last_digits equal to that value and
\* no credit_card.last_4_digits.
C11_Last4Renamed ==
    (Returned /\ call.op \in TransactionOps /\ HasLast4(input)) =>
        /\ "last_4_digits" \notin DOMAIN Result.m["credit_card"].m
        /\ "last_digits" \in DOMAIN Result.m["credit_card"].m
        /\ Result.m["credit_card"].m["last_digits"]
              = input.m["credit_card"].m["last_4_digits"]

\* C11, what the code does: clean_credit_card is handed the whole request,
\* so the credit_card section returned is the pruned section of the
\* request, last_4_digits still in it, and a last_4_digits key at the top
\* of the request is the one popped.
C11_CreditCardSectionUntouched ==
    (Returned /\ call.op \in TransactionOps /\ HasLast4(input)) =>
        /\ Result.m["credit_card"] = WithoutNones(input.m["credit_card"])
        /\ "last_4_digits" \notin DOMAIN Result.m

\* C11 witness: prepare_transaction has returned a request whose
\* credit_card still has last_4_digits and has no last_digits.
C11_Witness ==
    /\ Returned
    /\ call.op \in TransactionOps
    /\ HasLast4(input)
    /\ "last_4_digits" \in DOMAIN Result.m["credit_card"].m
    /\ "last_digits" \notin DOMAIN Result.m["credit_card"].m

---------------------------------------------------------------------------
(* Email canonicalization, read from what maybe_hash_email stored: the     *)
(* text the digest was taken of is the canonical address.                  *)

\* maybe_hash_email, called directly, has hashed an address with an "@".
DirectHashed ==
    /\ call = DirectCall
    /\ pc = "done"
    /\ outcome = "returned"
    /\ HasAt(input)

\* The canonical address, its local part and its domain.
CanonAddress == AddressOf(View(heap, request)).v

CanonLocal == Slice(CanonAddress, 0, RFind(CanonAddress, "@"))

CanonDomain == SliceFrom(CanonAddress, RFind(CanonAddress, "@") + 1)

\* The local part of the address given, lower-cased and stripped.
GivenLocal ==
    Slice(Strip(Lower(AddressOf(input).v)), 0,
          RFind(Strip(Lower(AddressOf(input).v)), "@"))

\* The address given, as text.
Given(chars) == HasAddress(input) /\ AddressOf(input) = Str(chars)

\* The separator for the canonical domain, and the local part cut at its
\* first occurrence when that is at an index greater than 0.
Separator == IF CanonDomain \in YAHOO_DOMAINS THEN "-" ELSE "+"

CutLocal ==
    IF Find(GivenLocal, Separator) > 0
    THEN Slice(GivenLocal, 0, Find(GivenLocal, Separator))
    ELSE GivenLocal

\* C12: the separator is "-" for a Yahoo domain and "+" otherwise; the
\* local part is cut at the first separator exactly when that is at an
\* index greater than 0, and the other character is no separator (for a
\* domain outside the Fastmail set, where the local part may be replaced;
\* for gmail.com the dots are removed after the cut).
C12_AliasStripping ==
    DirectHashed =>
        /\ CanonDomain \notin FASTMAIL_DOMAINS =>
               CanonLocal = IF CanonDomain = GmailCom
                            THEN Remove(CutLocal, ".") ELSE CutLocal
        /\ Given(<<"T","e","s","t","+","f","o","o","@","y","a","h","o","o",".","c","o","m">>) =>
               CanonAddress = <<"t","e","s","t","+","f","o","o","@","y","a","h","o","o",".","c","o","m">>
        /\ Given(<<"t","e","s","t","-","f","o","o","@","g","m","a","i","l",".","c","o","m">>) =>
               CanonAddress = <<"t","e","s","t","-","f","o","o","@","g","m","a","i","l",".","c","o","m">>
        /\ Given(<<"+","@","M","a","x","M","i","n","d",".","c","o","m">>) =>
               CanonAddress = <<"+","@","m","a","x","m","i","n","d",".","c","o","m">>

\* C12 witness: "a-+@yahoo.com" has been hashed as "a@yahoo.com": the cut
\* is at the "-" and not at the "+".
C12_Witness ==
    /\ DirectHashed
    /\ Given(<<"a","-","+","@","y","a","h","o","o",".","c","o","m">>)
    /\ CanonAddress = <<"a","@","y","a","h","o","o",".","c","o","m">>

\* The domain of the address given as _clean_domain leaves it, and
\* whether the Fastmail step replaces it by its parent domain.
GivenDomain ==
    clean_domain(SliceFrom(Strip(Lower(AddressOf(input).v)),
                           RFind(Strip(Lower(AddressOf(input).v)), "@") + 1)).v

Folded ==
    /\ Len(Split(GivenDomain)) > 2
    /\ Join(Tail(Split(GivenDomain))) \in FASTMAIL_DOMAINS

\* The number of dots of a text.
Dots(chars) == Len(SelectSeq(chars, LAMBDA c : c = "."))

\* C13 as stated: for the canonical domain gmail.com the canonical local
\* part has no "."; for every other canonical domain the canonical local
\* part has the dots of the alias-stripped local part.
C13_DotsKeptOutsideGmail ==
    DirectHashed =>
        /\ CanonDomain = GmailCom => Dots(CanonLocal) = 0
        /\ CanonDomain # GmailCom => Dots(CanonLocal) = Dots(CutLocal)

\* C13, as the code has it: for the canonical domain gmail.com, however
\* reached, the canonical local part is the alias-stripped local part
\* without its dots; for another domain it is the alias-stripped local
\* part with its dots, unless the Fastmail step replaces it by the first
\* label of a subdomain of a Fastmail domain.
C13_GmailDotsRemoved ==
    DirectHashed =>
        /\ CanonDomain = GmailCom =>
               /\ CanonLocal = Remove(CutLocal, ".")
               /\ \A i \in DOMAIN CanonLocal : CanonLocal[i] # "."
        /\ (CanonDomain # GmailCom /\ ~Folded) => CanonLocal = CutLocal
        /\ (CanonDomain # GmailCom /\ Folded) =>
               CanonLocal = IF CutLocal # <<>> THEN Head(Split(GivenDomain)) ELSE <<>>

\* C13 witness: "a.a@gamil.com" has been hashed as "aa@gmail.com".
C13_Witness ==
    /\ DirectHashed
    /\ Given(<<"a",".","a","@","g","a","m","i","l",".","c","o","m">>)
    /\ CanonAddress = <<"a","a","@","g","m","a","i","l",".","c","o","m">>

---------------------------------------------------------------------------
(* Report validation.                                                      *)

\* validate_report has been called on a report: the first structure the
\* validator was handed.
ReportValidated == call.op = "report" /\ call.validate /\ validated # <<>>

Report == validated[1]

\* validate_report raised MultipleInvalid, which prepare_report turns
\* into InvalidRequestError; it accepted when prepare_report returned.
ReportRejected == outcome = "InvalidRequestError" /\ posts = <<>> /\ ~Returned

\* The report has a valid tag, no invalid field and one identifier at
\* least.
GoodReport ==
    /\ "tag" \in DOMAIN Report.m
    /\ DOMAIN Report.m \subseteq ReportFields
    /\ \A k \in DOMAIN Report.m : Report.m[k] = GoodReportValue[k]
    /\ DOMAIN Report.m \cap ReportIdentifiers # {}

\* C14: a report without ip_address, maxmind_id, minfraud_id and
\* transaction_id is rejected with MultipleInvalid whatever its other
\* fields, a report is accepted only with one of them, and a report with
\* a valid tag and valid identifiers (one is enough) is accepted.
C14_IdentifierRequired ==
    ReportValidated =>
        /\ DOMAIN Report.m \cap ReportIdentifiers = {} => ReportRejected
        /\ Returned => DOMAIN Report.m \cap ReportIdentifiers # {}
        /\ GoodReport => Returned

\* C14 witness: {"tag": "chargeback"} has been rejected.
C14_Witness ==
    /\ ReportValidated
    /\ Report = D("tag" :> Chargeback)
    /\ ReportRejected

---------------------------------------------------------------------------
(* The message of a validation failure.                                    *)

\* All the violations the validator found in the structure it was given.
Violations == invalid_errors(call.op, validated)

\* prepare_transaction or prepare_report raised InvalidRequestError.
RaisedInvalidData ==
    /\ call \in ClientCalls
    /\ call.validate
    /\ outcome = "InvalidRequestError"
    /\ posts = <<>>

\* C15 as stated: with several violating fields the InvalidRequestError
\* of prepare_transaction and prepare_report describes all of them.
C15_MessageDescribesAll == RaisedInvalidData => message = Violations

\* C15, what the code does: the message of the InvalidRequestError
\* describes one of the violations found, whatever their number.
C15_MessageDescribesOne ==
    RaisedInvalidData => Cardinality(message) = 1 /\ message \subseteq Violations

\* C15 witness: a transaction with two violating fields has been refused.
C15_Witness ==
    /\ RaisedInvalidData
    /\ call.op # "report"
    /\ Cardinality(Violations) >= 2

---------------------------------------------------------------------------
(* Validation changes nothing.                                             *)

\* A validator has been called in this call.
Validating == call \in ClientCalls /\ call.validate /\ pc # "start"

\* The structure the validator was given is in the heap as it was given.
GivenKept == \E a \in DOMAIN heap : View(heap, Ref(a)) = validated[1]

\* The sections that hashing the email and cleaning the credit card write.
Rewritten == IF call.hash_email THEN {"email"} ELSE {}

SameOutside(sent, given) ==
    /\ DOMAIN sent.m = DOMAIN given.m
    /\ \A k \in DOMAIN given.m \ Rewritten : sent.m[k] = given.m[k]

MixedCase ==
    <<"T","e","s","t","+","i","g","n","o","r","e","d","@","M","a","x","M","i","n","d",".","c","o","m">>

\* C16: validate_transaction and validate_report leave the structure they
\* are given as it was, whether they accept or reject, and what is sent
\* holds the values of the request, not those the checkers return: the
\* structure sent is the structure validated, but for the email section
\* when the email is hashed.
C16_ValidationChangesNothing ==
    Validating =>
        /\ View(heap, request) = input
        /\ (outcome = "InvalidRequestError" /\ posts = <<>>) => GivenKept
        /\ (prepared # None /\ ~call.hash_email) => View(heap, prepared) = validated[1]
        /\ prepared # None => SameOutside(View(heap, prepared), validated[1])
        /\ posts # <<>> => SameOutside(posts[1].json, validated[1])
        /\ (posts # <<>> /\ ~call.hash_email) => posts[1].json = validated[1]

\* C16 witness: an address whose normalized form has another domain case
\* was accepted and sent as given.
C16_Witness ==
    /\ Validating
    /\ ~call.hash_email
    /\ posts # <<>>
    /\ validated[1] = D("email" :> D("address" :> Str(MixedCase)))
    /\ posts[1].json = validated[1]
    /\ email_normalized(MixedCase) # MixedCase

---------------------------------------------------------------------------
(* The status of the response.                                             *)

\* The call has ended on a response.
Answered == pc = "done" /\ response # NoResponse

IsTransaction == call.op \in {"score", "insights", "factors"}

Raised == outcome \notin {"none", "returned"}

\* C17: a transaction call returns only on status 200 and a report call
\* only on status 204; every other status raises, and a 2xx status that
\* is not the expected one raises HTTPError.
C17_OnlyExpectedStatusReturns ==
    Answered =>
        /\ (IsTransaction /\ outcome = "returned") => response.status = 200
        /\ (call.op = "report" /\ outcome = "returned") => response.status = 204
        /\ (IsTransaction /\ response.status # 200) => Raised
        /\ (call.op = "report" /\ response.status # 204) => Raised
        /\ (IsTransaction /\ response.status = 204) => outcome = "HTTPError"
        /\ (call.op = "report" /\ response.status = 200) => outcome = "HTTPError"

\* C17 witness: a report call answered with 200 has raised HTTPError.
C17_Witness ==
    /\ Answered
    /\ call.op = "report"
    /\ response.status = 200
    /\ outcome = "HTTPError"

---------------------------------------------------------------------------
(* The errors of the web service.                                          *)

\* The call ended on a 4xx response with a JSON content type and a JSON
\* object that has code and error.
WebServiceError ==
    /\ Answered
    /\ response.status \in 400..499
    /\ response.content_type \in JsonTypes
    /\ response.body.raw = "json"
    /\ response.body.kind = "object"
    /\ {"code", "error"} \subseteq response.body.keys

\* C18: on such a response the class of the exception depends on the
\* code alone: the four authentication codes give AuthenticationError,
\* INSUFFICIENT_FUNDS gives InsufficientFundsError, PERMISSION_REQUIRED
\* gives PermissionRequiredError and every other code gives
\* InvalidRequestError.
C18_ClassByCode ==
    WebServiceError =>
        outcome =
            CASE response.body.code \in {"ACCOUNT_ID_REQUIRED", "AUTHORIZATION_INVALID",
                                         "LICENSE_KEY_REQUIRED", "USER_ID_REQUIRED"}
                     -> "AuthenticationError"
              [] response.body.code = "INSUFFICIENT_FUNDS" -> "InsufficientFundsError"
              [] response.body.code = "PERMISSION_REQUIRED" -> "PermissionRequiredError"
              [] OTHER -> "InvalidRequestError"

\* C18 witness: USER_ID_REQUIRED under status 402 has raised
\* AuthenticationError.
C18_Witness ==
    /\ WebServiceError
    /\ response.status = 402
    /\ response.body.code = "USER_ID_REQUIRED"
    /\ outcome = "AuthenticationError"

---------------------------------------------------------------------------
(* The exceptions of a call.                                               *)

\* MinFraudError and its subclasses (errors.py).
MinFraudErrors ==
    {"MinFraudError", "AuthenticationError", "InsufficientFundsError",
     "InvalidRequestError", "PermissionRequiredError", "HTTPError"}

\* C19 as stated: whatever the response to a valid request, a call that
\* raises raises MinFraudError or one of its subclasses.
C19_OnlyMinFraudErrors == (Answered /\ Raised) => outcome \in MinFraudErrors

\* C19, what the code does: the classes raised on a response are those
\* of MinFraudError, and TypeError or AttributeError on a JSON body of
\* another shape than the one the code reads: a 4xx body that is a
\* number, a bool or null, or an array or a string holding "code" and
\* "error", and a 200 body that is no object or lacks a required key.
C19_ForeignOnlyOnJsonShape ==
    (Answered /\ Raised /\ outcome \notin MinFraudErrors) =>
        /\ outcome \in {"TypeError", "AttributeError"}
        /\ response.body.raw = "json"
        /\ \/ /\ response.status \in 400..499
              /\ response.content_type \in JsonTypes
              /\ response.body.kind # "object"
           \/ /\ response.status = 200
              /\ IsTransaction
              /\ \/ response.body.kind # "object"
                 \/ ~(RequiredKeys \subseteq response.body.keys)

\* C19 witness: a 400 response whose JSON body is a number has raised
\* TypeError.
C19_Witness ==
    /\ Answered
    /\ response.status = 400
    /\ response.body = JsonScalar("number")
    /\ outcome = "TypeError"

---------------------------------------------------------------------------
(* Pruning twice.                                                          *)

\* C20: pruning the result of pruning gives a structure equal to that
\* result, and leaves that result as it was.
C20_PruningIdempotent ==
    [][pc = "pruned" =>
           /\ View(heap', prepared') = View(heap, prepared)
           /\ View(heap', prepared) = View(heap, prepared)]_vars

\* C20 witness: a tuple holding a list of None and a dict of None has
\* been pruned twice, and a set of None inside a dict as well.
C20_Witness ==
    /\ pc = "pruned again"
    /\ \/ /\ input = D("shopping_cart" :>
                           L("tuple", <<L("list", <<None>>), D("category" :> None)>>))
          /\ Result = D("shopping_cart" :> L("list", <<L("list", <<>>), D(<<>>)>>))
       \/ /\ input = D("custom_inputs" :>
                           D("float_input" :> None @@ "InvalidKey" :> L("set", <<None>>)))
          /\ Result = D("custom_inputs" :> D("InvalidKey" :> L("list", <<>>)))

---------------------------------------------------------------------------
(* Calls without validation.                                               *)

\* A client call with validate false has passed its prepare function.
Unvalidated == call \in ClientCalls /\ ~call.validate /\ pc # "start"

\* The validator of the operation would reject the pruned request.
WouldBeRejected ==
    IF call.op = "report"
    THEN errors_on("report", Store(<<>>, WithoutNones(input))) # {}
    ELSE FailsValidation(WithoutNones(input))

\* C21 as stated: without validation a request the schema would reject
\* is returned pruned by the prepare function, to be transmitted.
C21_RejectedStillReturned == (Unvalidated /\ WouldBeRejected) => Returned

\* C21, what the code does: without validation no validator runs and no
\* InvalidRequestError is raised by the prepare function; with hash_email
\* false the request is returned and sent, pruned but for a top-level
\* last_4_digits; with hash_email true the call may end before any POST
\* with the TypeError, AttributeError or UnicodeError of the hashing.
C21_NoValidatorWhenDisabled ==
    Unvalidated =>
        /\ validated = <<>>
        /\ message = {}
        /\ posts = <<>> => outcome # "InvalidRequestError"
        /\ ~Returned =>
               /\ call.hash_email
               /\ pc = "done"
               /\ posts = <<>>
               /\ outcome \in {"TypeError", "AttributeError", "UnicodeError"}
        /\ (~call.hash_email /\ "last_4_digits" \notin DOMAIN input.m) =>
               Result = WithoutNones(input)
        /\ pc \in {"sent", "done"} /\ Returned => posts = <<[uri |-> uri_of(call.op), json |-> Result]>>

\* C21 witness: a report without tag and identifier, and a transaction
\* with an address that is no string, were sent without validation.
C21_Witness ==
    /\ Unvalidated
    /\ WouldBeRejected
    /\ ~call.hash_email
    /\ posts # <<>>
    /\ posts[1].json = WithoutNones(input)
    /\ input \in {D("ip_address" :> Str(<<"1",".","2",".","3",".">>) @@ "tag" :> Str(<<"x">>)),
                  D("email" :> D("address" :> One))}

---------------------------------------------------------------------------
(* Calls without hashing.                                                  *)

\* A transaction call with hash_email false has prepared its request.
Unhashed == call \in ClientCalls /\ IsTransaction /\ ~call.hash_email /\ Returned

EmailSection(t) == IF "email" \in DOMAIN t.m THEN <<t.m["email"]>> ELSE <<>>

\* C22: with hash_email false the email section prepared and sent is the
\* email section of the pruned input: the address as given, and no
\* domain added.
C22_EmailSectionAsGiven ==
    Unhashed =>
        /\ EmailSection(Result) = EmailSection(WithoutNones(input))
        /\ posts # <<>> => EmailSection(posts[1].json) = EmailSection(WithoutNones(input))

\* C22 witness: an address with capitals and an alias was sent as given,
\* without a domain.
C22_Witness ==
    /\ Unhashed
    /\ posts # <<>>
    /\ input = D("email" :> D("address" :> Str(TestIgnoredMaxMind)))
    /\ posts[1].json = input

---------------------------------------------------------------------------
(* The checkers of single fields.                                          *)

\* The request is one section with the one field, and the validator has
\* been called on it.
FieldChecked(section, field) ==
    /\ call \in ClientCalls
    /\ call.op # "report"
    /\ call.validate
    /\ pc # "start"
    /\ DOMAIN input.m = {section}
    /\ IsNode(input.m[section])
    /\ input.m[section].k = "dict"
    /\ DOMAIN input.m[section].m = {field}
    /\ validated = <<input>>

FieldValue(section, field) == input.m[section].m[field]

\* validate_transaction accepted the request: prepare_transaction went on
\* and returned it.
Accepted == Returned

\* validate_transaction raised MultipleInvalid for the field.
Rejected == outcome = "InvalidRequestError" /\ posts = <<>> /\ ~Returned

\* The value is a str of decimal digits whose length is in lens.
DigitString(x, lens) ==
    /\ ~IsNode(x)
    /\ x.t = "str"
    /\ Len(x.v) \in lens
    /\ \A i \in DOMAIN x.v : x.v[i] \in Digits

\* The value is a str that ends with a newline, and is digits of a
\* length in lens before it.
DigitLine(x, lens) ==
    /\ ~IsNode(x)
    /\ x.t = "str"
    /\ x.v # <<>>
    /\ x.v[Len(x.v)] = "\n"
    /\ DigitString(Str(SubSeq(x.v, 1, Len(x.v) - 1)), lens)

Iin == FieldValue("credit_card", "issuer_id_number")

\* C23 as stated: issuer_id_number is accepted if and only if it is a
\* string of exactly 6 or exactly 8 decimal digits.
C23_IinSixOrEightDigits ==
    FieldChecked("credit_card", "issuer_id_number") =>
        /\ Accepted <=> DigitString(Iin, {6, 8})
        /\ ~Accepted <=> Rejected

\* C23, what the code does: issuer_id_number is accepted if and only if
\* it is a string of 6 or 8 decimal digits, or such a string followed by
\* one newline; everything else, the integer 123456 included, is
\* rejected.
C23_IinDigitsBeforeDollar ==
    FieldChecked("credit_card", "issuer_id_number") =>
        /\ Accepted <=> (DigitString(Iin, {6, 8}) \/ DigitLine(Iin, {6, 8}))
        /\ ~Accepted <=> Rejected

\* C23 witness: six digits and a newline have been accepted.
C23_Witness ==
    /\ FieldChecked("credit_card", "issuer_id_number")
    /\ Iin = Str(Rep("1", 6) \o <<"\n">>)
    /\ Accepted

---------------------------------------------------------------------------
(* credit_card.token                                                       *)

Token == FieldValue("credit_card", "token")

\* The value is a str of printable ASCII characters other than the space
\* whose length is in lens.
GraphicString(x, lens) ==
    /\ ~IsNode(x)
    /\ x.t = "str"
    /\ Len(x.v) \in lens
    /\ \A i \in DOMAIN x.v : x.v[i] \in Graphic

\* C24 as stated: every token of 1 to 255 decimal digits is rejected, and
\* a token of 1 to 255 printable non-space ASCII characters with a
\* non-digit is accepted.
C24_AllDigitTokensRejected ==
    FieldChecked("credit_card", "token") =>
        /\ DigitString(Token, 1..255) => Rejected
        /\ (GraphicString(Token, 1..255) /\ ~DigitString(Token, 1..255)) => Accepted

\* C24, what the code does: a token of 1 to 19 decimal digits is
\* rejected; a token of 1 to 255 printable non-space ASCII characters is
\* accepted when it holds a non-digit or has 20 characters or more.
C24_ShortDigitTokensRejected ==
    FieldChecked("credit_card", "token") =>
        /\ DigitString(Token, 1..19) => Rejected
        /\ (GraphicString(Token, 1..255) /\ ~DigitString(Token, 1..19)) => Accepted
        /\ ~Accepted <=> Rejected

\* C24 witness: a token of 20 digits has been accepted and sent.
C24_Witness ==
    /\ FieldChecked("credit_card", "token")
    /\ Token = Str(Rep("1", 20))
    /\ Accepted
    /\ posts # <<>>

---------------------------------------------------------------------------
(* The order of the steps of _clean_domain.                                *)

\* _clean_domain has returned for the domain given.
DomainCleaned == call = DomainCall /\ pc = "cleaned"

\* The domain given is digits, gmail or gmai, and a final label that is a
\* key of _TYPO_TLDS.
NumericGmailTypo ==
    \E g \in NumericGmails, t \in DOMAIN TYPO_TLDS : input.v = g \o <<".">> \o t

\* C25 as stated: the TLD typo is corrected before the numeric-prefix
\* Gmail rewrite, so that digits, gmail or gmai, and a typo of com give
\* gmail.com.
C25_TldBeforeNumericGmail ==
    (DomainCleaned /\ NumericGmailTypo) => prepared = Str(GmailCom)

\* C25, what the code does: the numeric-prefix rewrite runs before the
\* TLD typo correction; such a domain keeps its digits and only has its
\* final label replaced by com, and gives gmail.com when that result is
\* cleaned again.
C25_NumericGmailBeforeTld ==
    (call = DomainCall /\ NumericGmailTypo) =>
        /\ pc = "cleaned" =>
               \E g \in NumericGmails : input.v = g \o <<".">> \o SubSeq(input.v, Len(g) + 2, Len(input.v))
                                        /\ prepared = Str(g \o DotCom)
        /\ pc = "cleaned again" => prepared = Str(GmailCom)

\* C25 witness: 123gmail.con has been cleaned into 123gmail.com.
C25_Witness ==
    /\ DomainCleaned
    /\ input = Str(<<"1","2","3","g","m","a","i","l",".","c","o","n">>)
    /\ prepared = Str(<<"1","2","3","g","m","a","i","l",".","c","o","m">>)

\* The domain given is a key of _TYPO_DOMAINS or _EQUIVALENT_DOMAINS
\* with its final label com replaced by a key of _TYPO_TLDS.
KeyWithTldTypo(d) ==
    /\ d \in ComKeys
    /\ \E t \in DOMAIN TYPO_TLDS : input.v = WithFinalLabel(d, t)

\* What the two tables give for a domain, the second applied to the
\* result of the first.
Looked_up(d) ==
    Get(EQUIVALENT_DOMAINS, Get(TYPO_DOMAINS, d, d), Get(TYPO_DOMAINS, d, d))

\* C26: the TLD typo is corrected before the lookups in the typo table
\* and the equivalence table: a key of either table whose final label
\* com is replaced by a typo of com gives what the key gives, which is
\* the equivalence table applied to what the typo table gives.
C26_TldBeforeTables ==
    DomainCleaned =>
        /\ \A d \in ComKeys : KeyWithTldTypo(d) => prepared = Str(Looked_up(d))
        /\ input.v \in ComKeys => prepared = Str(Looked_up(input.v))

\* C26 witness: gamil.con and googlemail.comm have given gmail.com.
C26_Witness ==
    /\ DomainCleaned
    /\ input \in {Str(<<"g","a","m","i","l",".","c","o","n">>),
                  Str(<<"g","o","o","g","l","e","m","a","i","l",".","c","o","m","m">>)}
    /\ prepared = Str(GmailCom)

---------------------------------------------------------------------------
(* _clean_domain twice.                                                    *)

\* C29 as stated: cleaning the result of _clean_domain again returns the
\* same domain.
C29_CleanDomainIdempotent ==
    [][(pc = "cleaned" /\ pc' = "cleaned again") => prepared' = prepared]_vars

\* The final label of the domain given is a key of _TYPO_TLDS.
HasTldTypo ==
    /\ RFind(input.v, ".") # -1
    /\ SliceFrom(input.v, RFind(input.v, ".") + 1) \in DOMAIN TYPO_TLDS

\* C29, what the code does: cleaning again returns the same domain when
\* the first cleaning corrected no TLD typo and the domain given has no
\* space left after the strip; a corrected TLD can complete a repeated
\* .com or a numeric-prefix Gmail domain, which only the second cleaning
\* rewrites.
C29_IdempotentWithoutTldTypo ==
    [][(pc = "cleaned" /\ pc' = "cleaned again" /\ ~HasTldTypo /\ " " \notin Range(prepared.v))
           => prepared' = prepared]_vars

\* C29 witness: example.com.con was cleaned into example.com.com, and
\* that into example.com.
C29_Witness ==
    /\ call = DomainCall
    /\ pc = "cleaned again"
    /\ input = Str(<<"e","x","a","m","p","l","e",".","c","o","m",".","c","o","n">>)
    /\ prepared = Str(<<"e","x","a","m","p","l","e",".","c","o","m">>)

---------------------------------------------------------------------------
(* Fastmail subdomains.                                                    *)

\* The labels of the domain given, once cleaned by _clean_domain.
GivenLabels == Split(GivenDomain)

UserFastmailCom == <<"u","s","e","r",".","f","a","s","t","m","a","i","l",".","c","o","m">>

FastmailCom == <<"f","a","s","t","m","a","i","l",".","c","o","m">>

\* C27: when the cleaned domain has more than two labels and the domain
\* without its first label is a Fastmail domain, the canonical domain is
\* that domain and a local part that is not empty becomes the first
\* label, an empty one stays empty; a Fastmail domain itself, and one
\* with two labels or more in front, is left as it is.
C27_FastmailFolding ==
    DirectHashed =>
        /\ Folded =>
               /\ CanonDomain = Join(Tail(GivenLabels))
               /\ GivenLocal # <<>> => CanonLocal = Head(GivenLabels)
               /\ GivenLocal = <<>> => CanonLocal = <<>>
        /\ GivenDomain \in FASTMAIL_DOMAINS => CanonDomain = GivenDomain
        /\ (/\ Len(GivenLabels) > 3
            /\ Join(Tail(Tail(GivenLabels))) \in FASTMAIL_DOMAINS
            /\ Join(Tail(GivenLabels)) \notin FASTMAIL_DOMAINS) => CanonDomain = GivenDomain
        /\ ~Folded => CanonDomain = GivenDomain

\* C27 witness: "a+a@user.fastmail.com" has been hashed as
\* "user@fastmail.com".
C27_Witness ==
    /\ DirectHashed
    /\ Given(<<"a", "+", "a", "@">> \o UserFastmailCom)
    /\ CanonAddress = <<"u","s","e","r","@">> \o FastmailCom

---------------------------------------------------------------------------
(* The phone country codes.                                                *)

\* The validator has been called on a request that is one phone country
\* code.
PhoneCodeChecked == \E f \in PhoneCodeFields : FieldChecked(f[1], f[2])

PhoneCode ==
    LET f == CHOOSE g \in PhoneCodeFields : DOMAIN input.m = {g[1]}
    IN FieldValue(f[1], f[2])

\* The value is an int (a bool is an int) from lo to hi.
IntWithin(x, lo, hi) ==
    /\ ~IsNode(x)
    /\ x.t \in {"int", "bool"}
    /\ ToNat(x.v) \in lo..hi

\* The value is a str of 1 to 4 digits that denotes a number from 1 to
\* 9999.
CodeString(x) == DigitString(x, 1..4) /\ ToNat(x.v) \in 1..9999

\* C28 as stated: a phone country code is accepted only if it denotes a
\* number from 1 to 9999, as an integer or as a string: 0, 10000, "0",
\* "0000", "" and "12345" are rejected, 1, "1" and "2341" are accepted.
C28_CodeFromOneTo9999 ==
    PhoneCodeChecked =>
        /\ Accepted => (IntWithin(PhoneCode, 1, 9999) \/ CodeString(PhoneCode))
        /\ (IntWithin(PhoneCode, 1, 9999) \/ CodeString(PhoneCode)) => Accepted

\* C28, what the code does: an integer is accepted from 1 to 9999, and a
\* string when it is 1 to 4 decimal digits, "0" and "0000" included, or
\* such digits followed by one newline.
C28_AnyFourDigitString ==
    PhoneCodeChecked =>
        /\ Accepted <=> \/ IntWithin(PhoneCode, 1, 9999)
                        \/ DigitString(PhoneCode, 1..4)
                        \/ DigitLine(PhoneCode, 1..4)
        /\ ~Accepted <=> Rejected

\* C28 witness: the string "0" has been accepted as billing phone
\* country code.
C28_Witness ==
    /\ FieldChecked("billing", "phone_country_code")
    /\ PhoneCode = Str(<<"0">>)
    /\ Accepted

---------------------------------------------------------------------------
(* AsyncClient: coroutines that share one client.  A coroutine runs       *)
(* without interruption from one await that suspends it to the next, so   *)
(* each action below is one such stretch of one coroutine.                *)

\* The most coroutines started on one client.
MaxTasks == 3

TaskKinds == TransactionOps \cup {"report", "close"}

\* AsyncClient._session without the hasattr test: a ClientSession is
\* constructed at every call.
session_unchecked(a) ==
    [a EXCEPT !.session = IF @ = "closed" THEN @ ELSE "open", !.created = @ + 1]

\* AsyncClient._session(): constructs the ClientSession when the client has
\* no _existing_session attribute, and returns self._existing_session.  The
\* coroutine has no await inside, so awaiting it suspends nothing.
session(a) ==
    IF a.session = "unset"
    THEN [a EXCEPT !.session = "open", !.created = @ + 1]
    ELSE a

\* A request prepare_* rejects: the IP address is no address, and a report
\* of it has no tag.
InvalidTransaction == D("device" :> D("ip_address" :> Str(<<"x">>)))

TaskArgs(kind) ==
    IF kind = "close" THEN {None}
    ELSE IF kind = "report" THEN {ValidReport, InvalidTransaction}
    ELSE {ValidTransaction, InvalidTransaction}

\* prepare_report(report, validate) of AsyncClient.report and
\* prepare_transaction(transaction, validate, hash_email) of
\* AsyncClient._response_for, with the defaults validate=True and
\* hash_email=False.
prepare_stored(kind, s) ==
    IF kind = "report" THEN prepare_report(s.h, s.v, TRUE)
    ELSE prepare_transaction(s.h, s.v, TRUE, FALSE)

prepared_task(kind, tree) == prepare_stored(kind, Store(<<>>, tree))

\* The responses a coroutine may receive.
TaskResponses ==
    {r \in Responses :
        \/ r.status = 204
        \/ r.body \in {JsonObject(RequiredKeys, ""),
                       JsonObject({"code", "error"}, "AUTHORIZATION_INVALID")}}

Tasks(kinds) ==
    {a \in [kind : {kinds}, arg : [DOMAIN kinds -> UNION {TaskArgs(k) : k \in TaskKinds}],
            at : {[i \in DOMAIN kinds |-> "start"]},
            used : {[i \in DOMAIN kinds |-> 0]},
            result : {[i \in DOMAIN kinds |-> "none"]},
            session : {"unset"}, created : {0}] :
        \A i \in DOMAIN kinds : a.arg[i] \in TaskArgs(kinds[i])}

AsyncCall ==
    [client |-> "AsyncClient", op |-> "tasks", validate |-> TRUE, hash_email |-> FALSE]

AsyncInit ==
    /\ aio \in UNION {Tasks(kinds) : kinds \in UNION {[1..n -> TaskKinds] : n \in 1..MaxTasks}}
    /\ call = AsyncCall
    /\ input = None
    /\ heap = <<>>
    /\ request = None
    /\ pc = "start"
    /\ prepared = None
    /\ validated = <<>>
    /\ posts = <<>>
    /\ response = NoResponse
    /\ outcome = "none"
    /\ warned = 0
    /\ message = {}

\* What coroutine i does once prepare_* gave r and _session() left the
\* client as a: the InvalidRequestError of prepare_* ends it before
\* _do_request; session.post on a closed session raises the RuntimeError
\* "Session is closed"; otherwise the POST is sent and the coroutine waits
\* for the response.
Sent(i, r, a) ==
    IF r.exc # "none"
    THEN /\ aio' = [aio EXCEPT !.at[i] = "done", !.result[i] = r.exc]
         /\ posts' = posts
    ELSE IF a.session = "closed"
    THEN /\ aio' = [a EXCEPT !.at[i] = "done", !.used[i] = a.created,
                             !.result[i] = "RuntimeError"]
         /\ posts' = posts
    ELSE /\ aio' = [a EXCEPT !.at[i] = "posted", !.used[i] = a.created]
         /\ posts' = posts \o requests_sent(r.h, aio.kind[i], r.v)

\* AsyncClient.score, insights, factors and report up to the await of
\* session.post: prepare_*, then _do_request, which awaits _session() and
\* posts.
SendRequest ==
    \E i \in DOMAIN aio.kind :
        /\ call = AsyncCall
        /\ aio.kind[i] # "close"
        /\ aio.at[i] = "start"
        /\ Sent(i, prepared_task(aio.kind[i], aio.arg[i]), session(aio))
        /\ UNCHANGED <<heap, input, request, call, pc, prepared, validated, response,
                       outcome, warned, message>>

\* The rest of the coroutine: the response arrives, its text is read, and
\* it is returned as a model or raised as an error.
ReceiveResponse ==
    \E i \in DOMAIN aio.kind, resp \in TaskResponses :
        /\ aio.at[i] = "posted"
        /\ aio' = [aio EXCEPT !.at[i] = "done", !.result[i] = outcome_of(aio.kind[i], resp)]
        /\ UNCHANGED <<heap, input, request, call, pc, prepared, validated, posts,
                       response, outcome, warned, message>>

\* AsyncClient.close() up to its await: nothing to do without an
\* _existing_session; an open session is marked closed before close()
\* waits for its connections; a closed one has nothing to wait for.
CloseStart ==
    \E i \in DOMAIN aio.kind :
        /\ call = AsyncCall
        /\ aio.kind[i] = "close"
        /\ aio.at[i] = "start"
        /\ aio' = IF aio.session = "open"
                  THEN [aio EXCEPT !.at[i] = "closing", !.session = "closed"]
                  ELSE [aio EXCEPT !.at[i] = "done", !.result[i] = "returned"]
        /\ UNCHANGED <<heap, input, request, call, pc, prepared, validated, posts,
                       response, outcome, warned, message>>

\* close() returns once the session's connections are closed.
CloseDone ==
    \E i \in DOMAIN aio.kind :
        /\ aio.at[i] = "closing"
        /\ aio' = [aio EXCEPT !.at[i] = "done", !.result[i] = "returned"]
        /\ UNCHANGED <<heap, input, request, call, pc, prepared, validated, posts,
                       response, outcome, warned, message>>

AsyncNext == SendRequest \/ ReceiveResponse \/ CloseStart \/ CloseDone

AsyncSpec == AsyncInit /\ [][AsyncNext]_vars

\* The coroutines that reached _do_request.
Requesting == {i \in DOMAIN aio.kind : aio.kind[i] # "close" /\ aio.used[i] # 0}

\* The close() calls that have begun.
Closing == {i \in DOMAIN aio.kind : aio.kind[i] = "close" /\ aio.at[i] # "start"}

\* C30: over the lifetime of one AsyncClient at most one aiohttp session is
\* created, whatever the interleaving of its request coroutines and close()
\* calls: a session exists exactly when some request reached _do_request,
\* every request that did so took that first session, also after close(),
\* and close() calls alone create none.
C30_AtMostOneSession ==
    /\ aio.created <= 1
    /\ aio.created = 1 <=> Requesting # {}
    /\ \A i \in Requesting : aio.used[i] = 1
    /\ aio.created = 0 <=> aio.session = "unset"

\* C30 witness: a request was answered, close() has returned, and a later
\* request took the closed session and ended with RuntimeError, with one
\* session created in all.
C30_Witness ==
    /\ aio.created = 1
    /\ \E i, j, k \in DOMAIN aio.kind :
        /\ aio.kind[i] # "close" /\ aio.result[i] = "returned"
        /\ aio.kind[j] = "close" /\ aio.at[j] = "done"
        /\ aio.kind[k] # "close" /\ aio.result[k] = "RuntimeError" /\ aio.used[k] = 1

====
